---- MODULE Spec2Model ----
(***************************************************************************)
(* Review scraping pipeline: selector probes and review extraction         *)
(* (backend/capterra_scraper.py), the keyword-heuristic sentiment scorers  *)
(* (backend/production_scrapers.py, direct_scrapers.py, real_scrapers.py), *)
(* and the orchestrators' live_scraping handlers                           *)
(* (backend/integrated_review_scraper.py and                               *)
(* integrated_review_scraper_production.py).                               *)
(*                                                                         *)
(* Scores are kept in hundredths (0.05 is 5, 1.0 is 100), ratings in       *)
(* tenths (4.5 is 45): the arithmetic is exact, IEEE rounding is not       *)
(* modelled.  Texts are strings; a dictionary is a function whose DOMAIN   *)
(* is its key set.  Wall-clock fields (date, scraped_at, created_at,       *)
(* processingTime, timestamp, requestId) are left out.                     *)
(***************************************************************************)
EXTENDS Integers, Sequences, FiniteSets, TLC

VARIABLES
    \* ---- orchestrator (live_scraping) ----
    app,             \* which FastAPI app serves the request
    request,         \* request.companies
    csv,             \* contents of company_review_urls.csv, or NoCsv
    pc,              \* position of the handler
    i,               \* loop index into request.companies (1-based)
    all_reviews,     \* all_reviews
    company_results, \* company_results
    errors,          \* errors
    table,           \* rows of the sentiment_data table
    response,        \* what the handler gave its caller
    task_max_reviews, \* run_scraping_task's max_reviews argument
    scraping_status, \* the module's global scraping_status
    trace,           \* history: one entry per loop iteration
    inserts,         \* history: batches handed to supabase insert
    \* ---- selector probes on one element ----
    element,         \* the page element under extraction
    extracted,       \* outcome of extracting it
    \* ---- keyword-heuristic scorer ----
    scorer,          \* which analyze_sentiment_* function runs
    reviews,         \* its argument: the reviews list
    raw_scores,      \* analyzer.polarity_scores(text)["compound"] per review
    scored,          \* whether the scorer has run
    \* ---- overlapping run_scraping_task invocations ----
    runs,            \* each invocation's arguments, locals and position
    publisher,       \* the invocation that built the object the global
                     \* name scraping_status refers to (0: the module)
    \* ---- multi-product aggregation ----
    product_sentiments, \* calculate_overall_sentiment's argument
    overall,         \* its result
    \* ---- navigators, debug capture and browsers ----
    central,         \* debug_config.DEBUG_CONFIG
    imported,        \* capterra_scraper.DEBUG_CONFIG, once the module is imported
    files,           \* the debug files on disk
    browsers,        \* the browsers launched and not closed
    call,            \* the latest scrape call: its arguments and what it did
    \* ---- CAPTCHA solver interface ----
    captcha_state,   \* the module's global captcha_state
    sockets,         \* per websocket connection: where its endpoint coroutine
                     \* is, the messages sent and not yet received, the
                     \* latest message the server sent
    clock,           \* int(time.time())
    \* ---- multi-product sentiment ----
    analysis,        \* the company asked for and what each product's scrape
                     \* will meet
    company_data     \* what analyze_company_sentiment returned

orch_vars  == <<app, request, csv, pc, i, all_reviews, company_results, errors,
                table, response, task_max_reviews, scraping_status, trace, inserts>>
probe_vars == <<element, extracted>>
score_vars == <<scorer, reviews, raw_scores, scored>>
overlap_vars == <<runs, publisher>>
agg_vars == <<product_sentiments, overall>>
nav_vars == <<central, imported, files, browsers, call>>
captcha_vars == <<captcha_state, sockets, clock>>
product_vars == <<analysis, company_data>>
rest_vars == <<nav_vars, captcha_vars, product_vars>>
side_vars == <<overlap_vars, agg_vars, rest_vars>>
vars == <<orch_vars, probe_vars, score_vars, side_vars>>

None == "None"
Raises == "Raises"

-----------------------------------------------------------------------------
(* Python built-ins used by the code                                       *)

Range(s) == {s[k] : k \in DOMAIN s}

\* dict.get(key, default)
Get(d, key, default) == IF key \in DOMAIN d THEN d[key] ELSE default

\* truthiness of a value that is None or a string
Truthy(v) == v # None /\ v # ""

RECURSIVE lstrip(_)
lstrip(s) == IF Len(s) > 0 /\ SubSeq(s, 1, 1) = " "
             THEN lstrip(SubSeq(s, 2, Len(s))) ELSE s

RECURSIVE rstrip(_)
rstrip(s) == IF Len(s) > 0 /\ SubSeq(s, Len(s), Len(s)) = " "
             THEN rstrip(SubSeq(s, 1, Len(s) - 1)) ELSE s

\* str.strip()
strip(s) == rstrip(lstrip(s))

\* "x.strip() if x else ''"
StripOrEmpty(t) == IF Truthy(t) THEN strip(t) ELSE ""

Digits == <<"0", "1", "2", "3", "4", "5", "6", "7", "8", "9">>

IsDigit(c) == \E d \in 1..10 : Digits[d] = c

DigitVal(c) == (CHOOSE d \in 1..10 : Digits[d] = c) - 1

CharAt(s, k) == SubSeq(s, k, k)

\* end of the run of digits that starts at k
RECURSIVE DigitsEnd(_, _)
DigitsEnd(s, k) == IF k + 1 <= Len(s) /\ IsDigit(CharAt(s, k + 1))
                   THEN DigitsEnd(s, k + 1) ELSE k

RECURSIVE IntVal(_, _, _)
IntVal(s, from, to) == IF from > to THEN 0
                       ELSE IntVal(s, from, to - 1) * 10 + DigitVal(CharAt(s, to))

\* re.search(r'(\d+(?:\.\d+)?)', text) then float(group(1)), in tenths; -1
\* when there is no match.  The model's rating texts carry at most one decimal.
rating_match(text) ==
    IF ~ \E k \in 1..Len(text) : IsDigit(CharAt(text, k)) THEN -1
    ELSE LET s == CHOOSE k \in 1..Len(text) :
                      /\ IsDigit(CharAt(text, k))
                      /\ \A j \in 1..(k - 1) : ~ IsDigit(CharAt(text, j))
             e == DigitsEnd(text, s)
             frac == e + 2 <= Len(text) /\ CharAt(text, e + 1) = "."
                       /\ IsDigit(CharAt(text, e + 2))
         IN  IntVal(text, s, e) * 10
               + (IF frac THEN DigitVal(CharAt(text, e + 2)) ELSE 0)

-----------------------------------------------------------------------------
(* Selector probes and review extraction: scrape_capterra_playwright        *)

review_selectors == <<".e1xzmg0z.c1ofrhif.typo-10.mb-6.space-y-4.p-6.lg\\:space-y-8",
                      ".review-card", ".review", ".review-item",
                      "[data-testid=\"review\"]", ".review-content",
                      ".review-box", ".review-container">>

name_selectors == <<".typo-20.text-neutral-99.font-semibold",
                    ".reviewer-name", ".author-name", ".reviewer", ".author",
                    "[data-testid=\"reviewer-name\"]", ".user-name">>

rating_selectors == <<"[aria-label*=\"star\"]",
                      ".rating", ".stars", "[data-testid=\"rating\"]",
                      ".score", ".star-rating">>

text_selectors == <<"p",
                    ".review-text", ".content", "[data-testid=\"review-text\"]",
                    ".review-body", ".description">>

title_selectors == <<".review-title", ".title", "h3", "h4", ".heading">>

\* What element.query_selector(selector) gives: no node, an exception (from
\* the query or from reading the node), or a node with its text_content()
\* and its aria-label attribute (each a string or None).
NoNode == [kind |-> "none"]
Throws == [kind |-> "raises"]
Node(text, aria) == [kind |-> "node", text |-> text, aria |-> aria]

query_selector(el, selector) ==
    IF selector \in DOMAIN el THEN el[selector] ELSE NoNode

\* a probe that would give up at the first selector that raises
RECURSIVE probe_name_aborting(_, _)
probe_name_aborting(el, k) ==
    IF k > Len(name_selectors) THEN "Anonymous"
    ELSE LET r == query_selector(el, name_selectors[k]) IN
         IF r.kind = "raises" THEN "Anonymous"
         ELSE IF r.kind = "node" /\ StripOrEmpty(r.text) # ""
         THEN StripOrEmpty(r.text)
         ELSE probe_name_aborting(el, k + 1)

\* lines 158-173: the first selector whose node has non-empty stripped text
RECURSIVE probe_name(_, _)
probe_name(el, k) ==
    IF k > Len(name_selectors) THEN "Anonymous"
    ELSE LET r == query_selector(el, name_selectors[k]) IN
         IF r.kind = "node" /\ StripOrEmpty(r.text) # ""
         THEN StripOrEmpty(r.text)
         ELSE probe_name(el, k + 1)

\* line 185: get_attribute("aria-label") or text_content()
rating_text(r) == IF Truthy(r.aria) THEN r.aria ELSE r.text

\* lines 176-191: the first selector whose node's text holds a number;
\* re.search on None raises and the bare except moves on
RECURSIVE probe_rating(_, _)
probe_rating(el, k) ==
    IF k > Len(rating_selectors) THEN 0
    ELSE LET r == query_selector(el, rating_selectors[k]) IN
         IF r.kind = "node" /\ rating_text(r) # None
                            /\ rating_match(rating_text(r)) # -1
         THEN rating_match(rating_text(r))
         ELSE probe_rating(el, k + 1)

MinProbeContent == 20

\* lines 194-208: content is assigned from every matching selector in turn
\* until one is longer than 20 characters
RECURSIVE probe_content(_, _, _)
probe_content(el, k, content) ==
    IF k > Len(text_selectors) THEN content
    ELSE LET r == query_selector(el, text_selectors[k]) IN
         IF r.kind = "node"
         THEN IF Len(StripOrEmpty(r.text)) > MinProbeContent
              THEN StripOrEmpty(r.text)
              ELSE probe_content(el, k + 1, StripOrEmpty(r.text))
         ELSE probe_content(el, k + 1, content)

\* lines 211-221: the first selector with a node, whatever its text
RECURSIVE probe_title(_, _)
probe_title(el, k) ==
    IF k > Len(title_selectors) THEN ""
    ELSE LET r == query_selector(el, title_selectors[k]) IN
         IF r.kind = "node" THEN StripOrEmpty(r.text)
         ELSE probe_title(el, k + 1)

MinContentLen == 10

\* a gate that would only ask for some content
content_gate_nonempty(content) == content # ""

\* line 223: the gate
content_gate(content) == content # "" /\ Len(content) > MinContentLen

\* an extraction that would drop a record without a parsed rating
extract_review_rated(el, company_name, url) ==
    LET content == probe_content(el, 1, "") IN
    IF content_gate(content) /\ probe_rating(el, 1) > 0
    THEN << [platform |-> "Capterra",
          company |-> company_name,
          reviewer_name |-> probe_name(el, 1),
          rating |-> probe_rating(el, 1),
          content |-> content,
          title |-> probe_title(el, 1),
          url |-> url] >>
    ELSE <<>>

\* lines 156-238 for one element: what it appends to reviews
extract_review(el, company_name, url) ==
    LET content == probe_content(el, 1, "") IN
    IF content_gate(content)
    THEN << [platform |-> "Capterra",
          company |-> company_name,
          reviewer_name |-> probe_name(el, 1),
          rating |-> probe_rating(el, 1),
          content |-> content,
          title |-> probe_title(el, 1),
          url |-> url] >>
    ELSE <<>>

\* What page.query_selector_all(selector) gives: a list of elements (empty
\* for a selector absent from the page) or an exception.
Elements(list) == [kind |-> "list", elements |-> list]

query_selector_all(page, selector) ==
    IF selector \in DOMAIN page THEN page[selector] ELSE Elements(<<>>)

\* lines 138-148: the elements of the first selector that matched any
RECURSIVE find_review_elements(_, _)
find_review_elements(page, k) ==
    IF k > Len(review_selectors) THEN <<>>
    ELSE LET r == query_selector_all(page, review_selectors[k]) IN
         IF r.kind = "list" /\ r.elements # <<>> THEN r.elements
         ELSE find_review_elements(page, k + 1)

\* review_elements[:max_reviews]
Take(list, n) == SubSeq(list, 1, IF Len(list) < n THEN Len(list) ELSE n)

RECURSIVE extract_all(_, _, _)
extract_all(els, company_name, url) ==
    IF els = <<>> THEN <<>>
    ELSE extract_review(Head(els), company_name, url)
           \o extract_all(Tail(els), company_name, url)

UpperCase == <<"A", "B", "C", "D", "E", "F", "G", "H", "I", "J", "K", "L", "M",
              "N", "O", "P", "Q", "R", "S", "T", "U", "V", "W", "X", "Y", "Z">>
LowerCase == <<"a", "b", "c", "d", "e", "f", "g", "h", "i", "j", "k", "l", "m",
              "n", "o", "p", "q", "r", "s", "t", "u", "v", "w", "x", "y", "z">>

LowerChar(c) == IF \E k \in 1..26 : UpperCase[k] = c
                THEN LowerCase[CHOOSE k \in 1..26 : UpperCase[k] = c] ELSE c

\* str.lower()
RECURSIVE lower(_)
lower(s) == IF Len(s) = 0 THEN ""
            ELSE LowerChar(CharAt(s, 1)) \o lower(SubSeq(s, 2, Len(s)))

\* str.replace(' ', '-')
RECURSIVE dashes(_)
dashes(s) == IF Len(s) = 0 THEN ""
             ELSE (IF CharAt(s, 1) = " " THEN "-" ELSE CharAt(s, 1))
                    \o dashes(SubSeq(s, 2, Len(s)))

\* lines 71-75: the URL visited
target_url(company_name, capterra_url) ==
    IF Truthy(capterra_url) THEN capterra_url
    ELSE "https://www.capterra.com/p/" \o dashes(lower(company_name)) \o "/"

\* One visit of the site, as the browser library reports it: the launch and
\* the navigation each succeed or raise, and the page answers the queries.
Visit(launch, goto, page) == [launch |-> launch, goto |-> goto, page |-> page]

\* scrape_capterra_playwright, lines 68-256: every exception ends in
\* "return reviews" (lines 246-248, 252-254) with reviews still empty
scrape_capterra_playwright(company_name, max_reviews, capterra_url, visit) ==
    IF visit.launch = Raises \/ visit.goto = Raises THEN <<>>
    ELSE extract_all(Take(find_review_elements(visit.page, 1), max_reviews),
                     company_name, target_url(company_name, capterra_url))

-----------------------------------------------------------------------------
(* IntegratedReviewScraper: sentiment, storage, catalog                    *)

Abs(x) == IF x < 0 THEN -x ELSE x

RECURSIVE Sum(_)
Sum(ns) == IF ns = <<>> THEN 0 ELSE Head(ns) + Sum(Tail(ns))

\* SentimentIntensityAnalyzer.polarity_scores(text)["compound"], an external
\* lexicon: a fixed function of the text, given here on the model's texts
polarity_compound(text) ==
    CASE text = "Great tool, buggy reports"    -> 34
      [] text = "Easy to use and fast support" -> 70
      [] text = "Solid and quick"              -> 5
      [] text = "Good value for money"         -> 44
      [] text = "Slow and it crashes daily"    -> -5
      [] text = "Terrible, broken and overpriced" -> -82
      [] OTHER                                 -> 0

PositiveThreshold == 5
NegativeThreshold == -5

\* a label that would leave the two thresholds themselves neutral
get_sentiment_label_strict(compound_score) ==
    IF compound_score > PositiveThreshold THEN "positive"
    ELSE IF compound_score < NegativeThreshold THEN "negative"
    ELSE "neutral"

\* _get_sentiment_label, lines 294-301
get_sentiment_label(compound_score) ==
    IF compound_score >= PositiveThreshold THEN "positive"
    ELSE IF compound_score <= NegativeThreshold THEN "negative"
    ELSE "neutral"

\* analyze_sentiment, lines 226-239: the result for a compound score
sentiment_of(compound) ==
    [sentiment_score |-> compound,
     sentiment_label |-> IF compound >= PositiveThreshold THEN "positive"
                         ELSE IF compound <= NegativeThreshold THEN "negative"
                         ELSE "neutral",
     sentiment_confidence |-> Abs(compound)]

\* analyze_sentiment, lines 220-251
analyze_sentiment(text) == sentiment_of(polarity_compound(text))

\* lines 321-324: review['sentiment_score'], review['sentiment_label']
with_sentiment(review) ==
    LET sentiment == analyze_sentiment(Get(review, "content", "")) IN
    [sentiment_score |-> sentiment.sentiment_score,
     sentiment_label |-> sentiment.sentiment_label] @@ review

Map(Op(_), list) == [k \in DOMAIN list |-> Op(list[k])]

\* scrape_capterra_reviews_async, lines 303-331.  scrape_capterra_playwright
\* catches every exception itself, so the except branch (the fallback) is
\* entered by no outcome of the visit.
scrape_capterra_reviews_async(company_name, capterra_url, max_reviews, visit) ==
    Map(with_sentiment,
        scrape_capterra_playwright(company_name, max_reviews, capterra_url, visit))

\* lines 262-283: the row built for one review
transformed_review(review) ==
    LET sentiment_score ==
            Get(review, "sentiment_score", Get(review, "sentiment_compound", 0))
    IN [company |-> Get(review, "company_name", ""),
        platform |-> Get(review, "source", ""),
        content |-> Get(review, "review_text", ""),
        author |-> Get(review, "reviewer_name", ""),
        rating |-> Get(review, "rating", 0),
        sentiment_score |-> sentiment_score,
        sentiment_label |-> get_sentiment_label(sentiment_score),
        sentiment_confidence |-> Abs(sentiment_score),
        pros |-> IF Truthy(Get(review, "pros", None))
                 THEN <<Get(review, "pros", "")>> ELSE <<>>,
        cons |-> IF Truthy(Get(review, "cons", None))
                 THEN <<Get(review, "cons", "")>> ELSE <<>>,
        reviewer_role |-> Get(review, "reviewer_title", ""),
        review_date |-> Get(review, "review_date", "")]

\* company_review_urls.csv: absent, or its rows under the header
\* Company,Capterra_URL
NoCsv == [exists |-> FALSE]
CsvFile(rows) == [exists |-> TRUE, rows |-> rows]

\* lines 36-47: later rows of a company replace earlier ones
RECURSIVE read_rows(_, _)
read_rows(rows, companies) ==
    IF rows = <<>> THEN companies
    ELSE LET company_name == strip(Head(rows).Company)
             capterra_url == strip(Head(rows).Capterra_URL)
             entry == [capterra_url |-> IF capterra_url # "" THEN capterra_url
                                        ELSE None]
         IN read_rows(Tail(rows),
                      IF company_name # ""
                      THEN (company_name :> entry) @@ companies
                      ELSE companies)

EmptyDict == [x \in {} |-> None]

\* load_company_urls_from_csv, lines 25-54
load_company_urls_from_csv(file) ==
    IF ~ file.exists THEN EmptyDict ELSE read_rows(file.rows, EmptyDict)

\* company_urls.get(company, {}).get('capterra_url')
capterra_url_of(company_urls, company) ==
    Get(Get(company_urls, company, EmptyDict), "capterra_url", None)

-----------------------------------------------------------------------------
(* The world the model runs in: companies, the CSV file, the site          *)

MaxRequestLen == 3

Companies == {"Sage", "Xero", "Unknown Co"}

SageUrl == "https://www.capterra.com/p/110208/Sage/"
XeroUrl == "https://www.capterra.com/p/120109/Xero/"

CsvFiles ==
    { NoCsv,
      CsvFile(<<>>),
      CsvFile(<< [Company |-> "Sage", Capterra_URL |-> SageUrl],
                 [Company |-> " Xero ", Capterra_URL |-> XeroUrl \o " "] >>),
      CsvFile(<< [Company |-> "Sage", Capterra_URL |-> SageUrl],
                 [Company |-> "Xero", Capterra_URL |-> " "] >>) }

\* Review cards as the site serves them
CardFull ==
    (".reviewer-name" :> Node(" Katie N. ", None))
 @@ ("[aria-label*=\"star\"]" :> Node("", "4.5 out of 5 stars"))
 @@ ("p" :> Node("Great tool, buggy reports", None))
 @@ (".review-title" :> Node("Solid but needs work", None))

CardNA == ("p" :> Node("n/a", None))

CardPlain == ("p" :> Node(" Easy to use and fast support ", None))

CardMid ==
    (".author" :> Node("Marc K.", None))
 @@ (".rating" :> Node("Rated highly", None))
 @@ (".stars" :> Node("5 stars", None))
 @@ ("p" :> Node("Solid and quick", None))
 @@ (".title" :> Throws)
 @@ ("h3" :> Node("Quick", None))

CardOk == ("p" :> Node("ok", None))

CardShadowed ==
    ("p" :> Node("Good value for money", None))
 @@ (".content" :> Node(" ok ", None))

SagePage == (".review-card" :> Elements(<<CardFull, CardNA, CardPlain>>))

XeroPage ==
    (".e1xzmg0z.c1ofrhif.typo-10.mb-6.space-y-4.p-6.lg\\:space-y-8" :> Throws)
 @@ (".review" :> Elements(<<CardMid, CardOk, CardShadowed>>))
 @@ (".review-item" :> Elements(<<CardFull>>))

NotFoundPage == [x \in {} |-> Throws]

\* The page behind a URL: the catalog's URLs, and the URLs line 75 builds
PageAt(url) ==
    CASE url = SageUrl -> SagePage
      [] url = XeroUrl -> XeroPage
      [] url = "https://www.capterra.com/p/xero/" -> XeroPage
      [] OTHER -> NotFoundPage

\* The ways one visit can go
SiteVisits(url) ==
    { Visit(Raises, "ok", NotFoundPage),
      Visit("ok", Raises, NotFoundPage),
      Visit("ok", "ok", PageAt(url)) }

BoundedRequests == UNION {[1..n -> Companies] : n \in 0..MaxRequestLen}

\* request lists exactly as long as a cap
AtCap(cap) == {[k \in 1..cap |-> c] : c \in Companies}

\* request lists one longer than a cap
OverCap(cap) == {[k \in 1..(cap + 1) |-> c] : c \in Companies}

-----------------------------------------------------------------------------
(* live_scraping of integrated_review_scraper.py, lines 444-571            *)

MaxCompaniesLive == 5
LiveMaxReviews == 10

\* a quotient kept exact: sum / count
Ratio(n, d) == [num |-> n, den |-> d]

sentiment_scores(revs) == [k \in DOMAIN revs |-> Get(revs[k], "sentiment_score", 0)]
ratings(revs) == [k \in DOMAIN revs |-> Get(revs[k], "rating", 0)]

\* sum(r.get('sentiment_score', 0) for r in revs) / len(revs)
mean_sentiment(revs) == Ratio(Sum(sentiment_scores(revs)), Len(revs))
mean_rating(revs) == Ratio(Sum(ratings(revs)), Len(revs))

\* lines 478, 484-489
platform_stats(revs) ==
    [capterra |->
        IF revs # <<>>
        THEN [reviews |-> Len(revs), avgSentiment |-> mean_sentiment(revs),
              avgRating |-> mean_rating(revs)]
        ELSE [reviews |-> 0, avgSentiment |-> Ratio(0, 1), avgRating |-> Ratio(0, 1)]]

\* a result that would count only the reviews carrying a rating
CompanyResultRatedOnly(company, company_reviews, stats) ==
    [company |-> company,
     totalReviews |->
        Len(SelectSeq(company_reviews, LAMBDA r : Get(r, "rating", 0) > 0)),
     averageSentiment |-> mean_sentiment(company_reviews),
     averageRating |-> mean_rating(company_reviews),
     platforms |-> stats]

\* lines 501-511
CompanyResult(company, company_reviews, stats) ==
    [company |-> company,
     totalReviews |-> Len(company_reviews),
     averageSentiment |-> mean_sentiment(company_reviews),
     averageRating |-> mean_rating(company_reviews),
     platforms |-> stats]

\* What the call at line 483 gives the loop: a list, or an exception
Returned(list) == [raised |-> FALSE, value |-> list]

\* lines 481-512: one pass of the loop body, given the call's outcome
live_iteration(company, outcome, st) ==
    LET company_reviews == IF outcome.raised THEN <<>> ELSE outcome.value IN
    [all_reviews |-> st.all_reviews \o company_reviews,
     company_results |->
        IF company_reviews # <<>>
        THEN Append(st.company_results,
                    CompanyResult(company, company_reviews,
                                  platform_stats(company_reviews)))
        ELSE st.company_results,
     errors |->
        IF outcome.raised
        THEN Append(st.errors, "Error scraping Capterra for " \o company)
        ELSE st.errors]

\* a store that would insert the rows one at a time
store_reviews_one_by_one(revs, insert_ok) ==
    LET transformed_reviews == Map(transformed_review, revs) IN
    [stored |-> insert_ok,
     issued |-> [k \in DOMAIN revs |-> <<transformed_reviews[k]>>],
     rows |-> IF insert_ok THEN transformed_reviews ELSE <<>>]

\* store_reviews_in_supabase, lines 253-292, given whether the insert at
\* line 286 succeeds or raises
store_reviews_in_supabase(revs, insert_ok) ==
    IF revs = <<>> THEN [stored |-> TRUE, issued |-> <<>>, rows |-> <<>>]
    ELSE LET transformed_reviews == Map(transformed_review, revs) IN
         [stored |-> insert_ok,
          issued |-> <<transformed_reviews>>,
          rows |-> IF insert_ok THEN transformed_reviews ELSE <<>>]

\* lines 524-529
RECURSIVE count_source(_, _)
count_source(revs, source) ==
    IF revs = <<>> THEN 0
    ELSE (IF Get(Head(revs), "source", "unknown") = source THEN 1 ELSE 0)
           + count_source(Tail(revs), source)

platform_breakdown(revs) == [capterra |-> count_source(revs, "capterra")]

\* a summary whose average would be taken without the empty-list guard
ScrapingResultUnguardedMean(companies, revs, results, errs, stored) ==
    [success |-> TRUE,
     totalReviews |-> Len(revs),
     companiesProcessed |-> Len(companies),
     platformBreakdown |-> platform_breakdown(revs),
     averageSentiment |-> mean_sentiment(revs),
     storedInSupabase |-> stored,
     storedCount |-> Len(revs),
     errors |-> errs,
     companyResults |-> results]

\* a summary that would discard the collected results when the insert fails
ScrapingResultRolledBack(companies, revs, results, errs, stored) ==
    [success |-> stored,
     totalReviews |-> IF stored THEN Len(revs) ELSE 0,
     companiesProcessed |-> Len(companies),
     platformBreakdown |-> platform_breakdown(revs),
     averageSentiment |-> IF stored /\ Len(revs) > 0 THEN mean_sentiment(revs)
                          ELSE Ratio(0, 1),
     storedInSupabase |-> stored,
     storedCount |-> IF stored THEN Len(revs) ELSE 0,
     errors |-> errs,
     companyResults |-> IF stored THEN results ELSE <<>>]

\* lines 522-549
ScrapingResult(companies, revs, results, errs, stored) ==
    [success |-> TRUE,
     totalReviews |-> Len(revs),
     companiesProcessed |-> Len(companies),
     platformBreakdown |-> platform_breakdown(revs),
     averageSentiment |-> IF Len(revs) > 0 THEN mean_sentiment(revs)
                          ELSE Ratio(0, 1),
     storedInSupabase |-> stored,
     storedCount |-> Len(revs),
     errors |-> errs,
     companyResults |-> results]

\* lines 551-568
FailedResult(error_msg) ==
    [success |-> FALSE,
     totalReviews |-> 0,
     companiesProcessed |-> 0,
     platformBreakdown |-> [capterra |-> 0],
     averageSentiment |-> Ratio(0, 1),
     storedInSupabase |-> FALSE,
     storedCount |-> 0,
     errors |-> <<error_msg>>,
     companyResults |-> <<>>]

NoResponse == [kind |-> "pending"]
Responded(body) == [kind |-> "returned", body |-> body]
Raised(status) == [kind |-> "raised", exception |-> "HTTPException", status |-> status]

\* history entry of one loop pass
Pass(company, url, how, n) == [company |-> company, url |-> url, visit |-> how,
                               collected |-> n]

VisitKind(visit) == IF visit.launch = Raises THEN "launch_fails"
                    ELSE IF visit.goto = Raises THEN "goto_fails" ELSE "loaded"

\* a handler that would admit a list longer than the cap
LiveAdmit ==
    /\ app = "live" /\ pc = "start"
    /\ Len(request) > MaxCompaniesLive
    /\ pc' = IF load_company_urls_from_csv(csv) = EmptyDict THEN "done" ELSE "loop"
    /\ response' = IF load_company_urls_from_csv(csv) = EmptyDict
                   THEN Raised(400) ELSE response
    /\ UNCHANGED <<app, request, csv, i, all_reviews, company_results, errors,
                   table, task_max_reviews, scraping_status, trace, inserts,
                   probe_vars, score_vars, side_vars>>

\* lines 451-452
LiveReject ==
    /\ app = "live" /\ pc = "start"
    /\ Len(request) > MaxCompaniesLive
    /\ response' = Raised(400)
    /\ pc' = "done"
    /\ UNCHANGED <<app, request, csv, i, all_reviews, company_results, errors,
                   table, task_max_reviews, scraping_status, trace, inserts,
                   probe_vars, score_vars, side_vars>>

\* a handler whose catalog check would sit outside the try block
LiveBeginUnguarded ==
    /\ app = "live" /\ pc = "start"
    /\ Len(request) <= MaxCompaniesLive
    /\ IF load_company_urls_from_csv(csv) = EmptyDict
       THEN /\ response' = Raised(500)
            /\ pc' = "done"
       ELSE /\ pc' = "loop"
            /\ UNCHANGED response
    /\ UNCHANGED <<app, request, csv, i, all_reviews, company_results, errors,
                   table, task_max_reviews, scraping_status, trace, inserts,
                   probe_vars, score_vars, side_vars>>

\* lines 456-464; an empty catalog raises inside the try and lines 551-568
\* answer
LiveBegin ==
    /\ app = "live" /\ pc = "start"
    /\ Len(request) <= MaxCompaniesLive
    /\ IF load_company_urls_from_csv(csv) = EmptyDict
       THEN /\ response' = Responded(FailedResult(
                   "Scraping failed: 500: Failed to load company URLs from CSV"))
            /\ pc' = "done"
       ELSE /\ pc' = "loop"
            /\ UNCHANGED response
    /\ UNCHANGED <<app, request, csv, i, all_reviews, company_results, errors,
                   table, task_max_reviews, scraping_status, trace, inserts,
                   probe_vars, score_vars, side_vars>>

LiveState == [all_reviews |-> all_reviews, company_results |-> company_results,
              errors |-> errors]

\* lines 468-516: one company
LiveCompany ==
    /\ app = "live" /\ pc = "loop" /\ i <= Len(request)
    /\ LET company == request[i]
           capterra_url ==
               capterra_url_of(load_company_urls_from_csv(csv), company)
       IN IF Truthy(capterra_url)
          THEN \E visit \in SiteVisits(capterra_url) :
                 LET outcome == Returned(scrape_capterra_reviews_async(
                                    company, capterra_url, LiveMaxReviews, visit))
                     next == live_iteration(company, outcome, LiveState)
                 IN /\ all_reviews' = next.all_reviews
                    /\ company_results' = next.company_results
                    /\ errors' = next.errors
                    /\ trace' = Append(trace, Pass(company, capterra_url,
                                         VisitKind(visit), Len(outcome.value)))
          ELSE /\ trace' = Append(trace, Pass(company, None, "skipped", 0))
               /\ UNCHANGED <<all_reviews, company_results, errors>>
    /\ i' = i + 1
    /\ UNCHANGED <<app, request, csv, pc, table, response, task_max_reviews,
                   scraping_status, inserts, probe_vars, score_vars, side_vars>>

\* lines 518-549
LiveFinish ==
    /\ app = "live" /\ pc = "loop" /\ i > Len(request)
    /\ \E insert_ok \in BOOLEAN :
         LET store == store_reviews_in_supabase(all_reviews, insert_ok) IN
         /\ table' = table \o store.rows
         /\ inserts' = inserts \o store.issued
         /\ response' = Responded(ScrapingResult(request, all_reviews,
                            company_results, errors, store.stored))
    /\ pc' = "done"
    /\ UNCHANGED <<app, request, csv, i, all_reviews, company_results, errors,
                   task_max_reviews, scraping_status, trace, probe_vars, score_vars, side_vars>>

-----------------------------------------------------------------------------
(* run_scraping_task of integrated_review_scraper.py, lines 788-900        *)

\* lines 121-127
IdleStatus == [status |-> "idle", progress |-> EmptyDict, total_reviews |-> 0]

RECURSIVE count_company_name(_, _)
count_company_name(revs, company) ==
    IF revs = <<>> THEN 0
    ELSE (IF Get(Head(revs), "company_name", None) = company THEN 1 ELSE 0)
           + count_company_name(Tail(revs), company)

\* lines 792-804
TaskBegin ==
    /\ app = "task" /\ pc = "start"
    /\ scraping_status' = [status |-> "running", progress |-> EmptyDict,
                           total_reviews |-> 0]
    /\ pc' = "loop"
    /\ UNCHANGED <<app, request, csv, i, all_reviews, company_results, errors,
                   table, response, task_max_reviews, trace, inserts,
                   probe_vars, score_vars, side_vars>>

\* lines 806-860: one company; the scraper is called whether or not the CSV
\* gave a URL (line 821)
TaskCompany ==
    /\ app = "task" /\ pc = "loop" /\ i <= Len(request)
    /\ LET company == request[i]
           capterra_url ==
               capterra_url_of(load_company_urls_from_csv(csv), company)
       IN \E visit \in SiteVisits(target_url(company, capterra_url)) :
            LET outcome == Returned(scrape_capterra_reviews_async(
                               company, capterra_url, task_max_reviews, visit))
                next == live_iteration(company, outcome, LiveState)
            IN /\ all_reviews' = next.all_reviews
               /\ company_results' = next.company_results
               /\ errors' = next.errors
               /\ scraping_status' =
                    [scraping_status EXCEPT
                       !.progress = (company :> Len(outcome.value)) @@ @,
                       !.total_reviews = Len(next.all_reviews)]
               /\ trace' = Append(trace,
                                  Pass(company, target_url(company, capterra_url),
                                       VisitKind(visit), Len(outcome.value)))
    /\ i' = i + 1
    /\ UNCHANGED <<app, request, csv, pc, table, response, task_max_reviews, inserts,
                   probe_vars, score_vars, side_vars>>

\* a task end that would leave the published status as it was
TaskFinishUnpublished ==
    /\ app = "task" /\ pc = "loop" /\ i > Len(request)
    /\ \E insert_ok \in BOOLEAN :
         LET store == store_reviews_in_supabase(all_reviews, insert_ok) IN
         /\ table' = table \o store.rows
         /\ inserts' = inserts \o store.issued
    /\ pc' = "done"
    /\ UNCHANGED <<app, request, csv, i, all_reviews, company_results, errors,
                   response, task_max_reviews, scraping_status, trace,
                   probe_vars, score_vars, side_vars>>

\* lines 862-885
TaskFinish ==
    /\ app = "task" /\ pc = "loop" /\ i > Len(request)
    /\ \E insert_ok \in BOOLEAN :
         LET store == store_reviews_in_supabase(all_reviews, insert_ok) IN
         /\ table' = table \o store.rows
         /\ inserts' = inserts \o store.issued
    /\ scraping_status' =
         [status |-> "completed",
          progress |-> [company \in Range(request) |->
                          count_company_name(all_reviews, company)],
          total_reviews |-> Len(all_reviews)]
    /\ pc' = "done"
    /\ UNCHANGED <<app, request, csv, i, all_reviews, company_results, errors,
                   response, task_max_reviews, trace, probe_vars, score_vars, side_vars>>

\* lines 886-896: an exception that escapes the try body (a call of the
\* body raising outside the inner try of lines 814-836) ends the task
TaskFail ==
    /\ app = "task" /\ pc = "loop"
    /\ errors' = Append(errors, "Scraping task failed")
    /\ scraping_status' = [status |-> "error", progress |-> EmptyDict,
                           total_reviews |-> 0]
    /\ pc' = "done"
    /\ UNCHANGED <<app, request, csv, i, all_reviews, company_results, table,
                   response, task_max_reviews, trace, inserts,
                   probe_vars, score_vars, side_vars>>

-----------------------------------------------------------------------------
(* live_scraping of integrated_review_scraper_production.py, 1129-1237     *)

MaxCompaniesDemo == 10
DemoMaxReviews == 20

\* the hand-written reviews of generate_dummy_reviews (lines 141-988), each
\* company's list cut to its first entries
dummy_reviews(company_name) ==
    CASE company_name = "Sage" ->
           << [name |-> "Sarah Johnson", rating |-> 50,
               content |-> "Sage has completely transformed our accounting processes.",
               role |-> "Financial Controller",
               pros |-> <<"Excellent automation", "Great reporting", "Responsive support">>,
               cons |-> <<"Learning curve", "Price could be lower">>],
              [name |-> "Michael Chen", rating |-> 40,
               content |-> "Good accounting software with solid features.",
               role |-> "Business Owner",
               pros |-> <<"Intuitive interface", "Good bank integration", "Reliable">>,
               cons |-> <<"Limited documentation", "Some bugs">>] >>
      [] company_name = "Xero" ->
           << [name |-> "Emma Thompson", rating |-> 50,
               content |-> "Xero is fantastic!",
               role |-> "Small Business Owner",
               pros |-> <<"Clean interface", "Modern design", "Excellent mobile app">>,
               cons |-> <<"Price">>] >>
      [] OTHER ->
           << [name |-> "Generic User", rating |-> 30,
               content |-> "Good software overall. Works as advertised.",
               role |-> "Business Owner",
               pros |-> <<"Functional", "Reliable">>,
               cons |-> <<"Could be better">>] >>

\* generate_dummy_reviews, lines 136-1020
generate_dummy_reviews(company_name, platform, limit) ==
    LET listed == Take(dummy_reviews(company_name), limit) IN
    [k \in DOMAIN listed |->
        LET sentiment == analyze_sentiment(listed[k].content) IN
        [company_name |-> company_name,
         source |-> platform,
         reviewer_name |-> listed[k].name,
         rating |-> listed[k].rating,
         content |-> listed[k].content,
         reviewer_title |-> listed[k].role,
         pros |-> listed[k].pros,
         cons |-> listed[k].cons,
         sentiment_score |-> sentiment.sentiment_score,
         sentiment_label |-> sentiment.sentiment_label,
         sentiment_confidence |-> sentiment.sentiment_confidence,
         url |-> target_url(company_name, None)]]

\* ProductionReviewScraper.store_reviews_in_supabase, lines 1064-1085
demo_transformed_review(review) ==
    LET sentiment_score ==
            Get(review, "sentiment_score", Get(review, "sentiment_compound", 0))
    IN [company |-> Get(review, "company_name", ""),
        platform |-> Get(review, "source", ""),
        content |-> Get(review, "content", ""),
        author |-> Get(review, "reviewer_name", ""),
        rating |-> Get(review, "rating", 0),
        sentiment_score |-> sentiment_score,
        sentiment_label |-> get_sentiment_label(sentiment_score),
        sentiment_confidence |-> Abs(sentiment_score),
        pros |-> Get(review, "pros", <<>>),
        cons |-> Get(review, "cons", <<>>),
        reviewer_role |-> Get(review, "reviewer_title", ""),
        review_date |-> Get(review, "review_date", "")]

\* lines 1055-1094
demo_store_reviews_in_supabase(revs, insert_ok) ==
    IF revs = <<>> THEN [stored |-> TRUE, issued |-> <<>>, rows |-> <<>>]
    ELSE LET transformed_reviews == Map(demo_transformed_review, revs) IN
         [stored |-> insert_ok,
          issued |-> <<transformed_reviews>>,
          rows |-> IF insert_ok THEN transformed_reviews ELSE <<>>]

\* [r for r in all_reviews if r.get('company_name') == company]
RECURSIVE of_company(_, _)
of_company(revs, company) ==
    IF revs = <<>> THEN <<>>
    ELSE (IF Get(Head(revs), "company_name", None) = company
          THEN <<Head(revs)>> ELSE <<>>) \o of_company(Tail(revs), company)

\* lines 1136-1137
DemoReject ==
    /\ app = "demo" /\ pc = "start"
    /\ Len(request) > MaxCompaniesDemo
    /\ response' = Raised(400)
    /\ pc' = "done"
    /\ UNCHANGED <<app, request, csv, i, all_reviews, company_results, errors,
                   table, task_max_reviews, scraping_status, trace, inserts,
                   probe_vars, score_vars, side_vars>>

\* lines 1141-1149 and 1217-1234
DemoBegin ==
    /\ app = "demo" /\ pc = "start"
    /\ Len(request) <= MaxCompaniesDemo
    /\ IF load_company_urls_from_csv(csv) = EmptyDict
       THEN /\ response' = Responded(FailedResult(
                   "Production demo failed: 500: Failed to load company URLs from CSV"))
            /\ pc' = "done"
       ELSE /\ pc' = "loop"
            /\ UNCHANGED response
    /\ UNCHANGED <<app, request, csv, i, all_reviews, company_results, errors,
                   table, task_max_reviews, scraping_status, trace, inserts,
                   probe_vars, score_vars, side_vars>>

\* lines 1153-1187: one company
DemoCompany ==
    /\ app = "demo" /\ pc = "loop" /\ i <= Len(request)
    /\ LET company == request[i]
           generated == generate_dummy_reviews(company, "Capterra", DemoMaxReviews)
           collected == all_reviews \o generated
           company_reviews == of_company(collected, company)
       IN /\ all_reviews' = collected
          /\ company_results' =
               IF company_reviews # <<>>
               THEN Append(company_results,
                           CompanyResult(company, company_reviews,
                                         platform_stats(company_reviews)))
               ELSE company_results
          /\ trace' = Append(trace, Pass(company, None, "generated", Len(generated)))
    /\ i' = i + 1
    /\ UNCHANGED <<app, request, csv, pc, errors, table, response, task_max_reviews,
                   scraping_status, inserts, probe_vars, score_vars, side_vars>>

\* lines 1189-1215
DemoFinish ==
    /\ app = "demo" /\ pc = "loop" /\ i > Len(request)
    /\ \E insert_ok \in BOOLEAN :
         LET store == demo_store_reviews_in_supabase(all_reviews, insert_ok) IN
         /\ table' = table \o store.rows
         /\ inserts' = inserts \o store.issued
         /\ response' = Responded(
              [ScrapingResult(request, all_reviews, company_results, errors,
                              store.stored)
                 EXCEPT !.platformBreakdown = [capterra |-> Len(all_reviews)]])
    /\ pc' = "done"
    /\ UNCHANGED <<app, request, csv, i, all_reviews, company_results, errors,
                   task_max_reviews, scraping_status, trace, probe_vars, score_vars, side_vars>>

-----------------------------------------------------------------------------
(* The orchestrators' specification                                        *)

TaskMaxReviews == {2, 10}

Requests(a) ==
    CASE a = "live" -> BoundedRequests \cup AtCap(MaxCompaniesLive)
                          \cup OverCap(MaxCompaniesLive)
      [] a = "demo" -> BoundedRequests \cup AtCap(MaxCompaniesDemo)
                          \cup OverCap(MaxCompaniesDemo)
      [] OTHER      -> BoundedRequests

NoElement == [x \in {} |-> NoNode]

ProbeIdle == element = NoElement /\ extracted = <<>>

ScoreIdle == scorer = "none" /\ reviews = <<>> /\ raw_scores = <<>>
             /\ scored = FALSE

NoOverall == [computed |-> FALSE]

debug_flags(shots, html, cleanup) ==
    [save_screenshots |-> shots, save_html |-> html, cleanup_old_files |-> cleanup]

\* debug_config.py lines 8-28: the capture and clean-up flags
DEBUG_CONFIG == debug_flags(FALSE, FALSE, TRUE)

NotImported == [imported |-> FALSE]

NoCall == [done |-> FALSE, variant |-> "none"]

NavIdle == /\ central = DEBUG_CONFIG /\ imported = NotImported
           /\ files = {} /\ browsers = 0 /\ call = NoCall

Conns == {1, 2}

\* captcha_solver_interface.py lines 34-39
InitialCaptchaState ==
    [current_captcha |-> None, solved |-> FALSE, solution |-> None,
     waiting |-> FALSE]

Socket(at, inbox, sent) == [at |-> at, inbox |-> inbox, sent |-> sent]

CaptchaIdle ==
    /\ captcha_state = InitialCaptchaState
    /\ sockets = [c \in Conns |-> Socket("receive", <<>>, None)]
    /\ clock = 0

NoAnalysis == [company_name |-> None]
NoCompanyData == [company |-> None]

ProductsIdle == analysis = NoAnalysis /\ company_data = NoCompanyData

RestIdle == NavIdle /\ CaptchaIdle /\ ProductsIdle

SideIdle == /\ runs = <<>> /\ publisher = 0
            /\ product_sentiments = <<>> /\ overall = NoOverall
            /\ RestIdle

OrchInit ==
    /\ app \in {"live", "task", "demo"}
    /\ request \in Requests(app)
    /\ csv \in CsvFiles
    /\ pc = "start"
    /\ i = 1
    /\ all_reviews = <<>>
    /\ company_results = <<>>
    /\ errors = <<>>
    /\ table = <<>>
    /\ response = NoResponse
    /\ task_max_reviews \in (IF app = "task" THEN TaskMaxReviews
                             ELSE {LiveMaxReviews})
    /\ scraping_status = IdleStatus
    /\ trace = <<>>
    /\ inserts = <<>>

Init == OrchInit /\ ProbeIdle /\ ScoreIdle /\ SideIdle

Next ==
    \/ LiveReject
    \/ LiveBegin
    \/ LiveCompany
    \/ LiveFinish
    \/ TaskBegin
    \/ TaskCompany
    \/ TaskFinish
    \/ TaskFail
    \/ DemoReject
    \/ DemoBegin
    \/ DemoCompany
    \/ DemoFinish

Spec == Init /\ [][Next]_vars

\* run_scraping_task alone, run to its end: the event loop resumes the
\* coroutine after every await and time.sleep returns
TaskInit == Init /\ app = "task"

TaskLoop == TaskCompany \/ TaskFinish \/ TaskFail

NextTask == TaskBegin \/ TaskLoop

\* weak fairness of the start and of the loop steps; the loop steps are
\* enabled exactly while pc = "loop", and their fairness is written with
\* that condition in place of ENABLED <<TaskLoop>>_vars
SpecTask == /\ TaskInit /\ [][NextTask]_vars
            /\ WF_vars(TaskBegin)
            /\ ([]<>(pc # "loop") \/ []<><<TaskLoop>>_vars)

-----------------------------------------------------------------------------
(* Probing single elements: the inputs are elements whose leading          *)
(* selectors of one probe list answer in every possible way                *)

MaxProbeDepth == 3

Min(a, b) == IF a < b THEN a ELSE b

Leading(selectors) == {selectors[k] : k \in 1..Min(MaxProbeDepth, Len(selectors))}

IndexOf(selectors, selector) ==
    CHOOSE k \in 1..Len(selectors) : selectors[k] = selector

\* texts that tell which selector supplied them
NameTexts == <<"Katie N.", " Marc K. ", "Rob S.", "Ann A.", "Bo B.", "Cy C.", "Di D.">>
LongTexts == <<"Great tool, buggy reports", " Easy to use and fast support ",
               "Slow and it crashes daily", "Terrible, broken and overpriced",
               "Reporting saves us hours weekly", "Support answered within a day">>
MidTexts  == <<"Solid and quick", "Good value for money", "Works fine now",
               "Does the job", "Decent product", "Fair pricing here">>
ShortTexts == <<"ok", "n/a", "", "Works fine", " ok ", "meh">>
RatingTexts == <<"4.5 out of 5 stars", "5 stars", "3.0", "2 of 5", "1.5", "4">>
TitleTexts == <<"Solid but needs work", " Excellent software ", "Best in class",
                "Fine", "Heading">>

NameAnswers(k) == {NoNode, Throws, Node("  ", None), Node(None, None),
                   Node(NameTexts[k], None)}

RatingAnswers(k) == {NoNode, Throws, Node("Rated highly", None), Node(None, None),
                     Node(RatingTexts[k], None), Node("", RatingTexts[k])}

ContentAnswers(k) == {NoNode, Throws, Node(ShortTexts[k], None),
                      Node(MidTexts[k], None), Node(LongTexts[k], None)}

TitleAnswers(k) == {NoNode, Throws, Node("", None), Node(TitleTexts[k], None)}

\* every way the leading selectors of a list can answer
Answering(selectors, Answers(_)) ==
    LET D == Leading(selectors)
        All == UNION {Answers(k) : k \in 1..Len(selectors)}
    IN {f \in [D -> All] : \A sel \in D : f[sel] \in Answers(IndexOf(selectors, sel))}

WellFormed == (name_selectors[1] :> Node(NameTexts[1], None))
           @@ (rating_selectors[1] :> Node("", RatingTexts[1]))
           @@ (title_selectors[1] :> Node(TitleTexts[1], None))

ProbeElements ==
       {f @@ CardPlain : f \in Answering(name_selectors, NameAnswers)}
  \cup {f @@ CardPlain : f \in Answering(rating_selectors, RatingAnswers)}
  \cup {f @@ CardPlain : f \in Answering(title_selectors, TitleAnswers)}
  \cup {f @@ WellFormed : f \in Answering(text_selectors, ContentAnswers)}

OrchIdle ==
    /\ app = "none" /\ request = <<>> /\ csv = NoCsv /\ pc = "done" /\ i = 1
    /\ all_reviews = <<>> /\ company_results = <<>> /\ errors = <<>>
    /\ table = <<>> /\ response = NoResponse
    /\ task_max_reviews = LiveMaxReviews
    /\ scraping_status = IdleStatus /\ trace = <<>> /\ inserts = <<>>

ProbeInit ==
    /\ OrchIdle /\ ScoreIdle /\ SideIdle
    /\ element \in ProbeElements
    /\ extracted = <<>>

\* the body of the loop at line 155 for the element
ExtractElement ==
    /\ extracted = <<>>
    /\ element # NoElement
    /\ extracted' = << [reviewer_name |-> probe_name(element, 1),
                        rating |-> probe_rating(element, 1),
                        content |-> probe_content(element, 1, ""),
                        title |-> probe_title(element, 1),
                        reviews |-> extract_review(element, "Sage", SageUrl)] >>
    /\ UNCHANGED <<element, orch_vars, score_vars, side_vars>>

SpecProbe == ProbeInit /\ [][ExtractElement]_vars

-----------------------------------------------------------------------------
(* The keyword-heuristic scorers: analyze_sentiment_production            *)
(* (production_scrapers.py 369-435), analyze_sentiment_direct             *)
(* (direct_scrapers.py 350-416), analyze_sentiment_heuristic              *)
(* (real_scrapers.py 293-355)                                             *)

\* "word in text"
Contains(text, word) ==
    \E k \in 1..(Len(text) - Len(word) + 1) :
        SubSeq(text, k, k + Len(word) - 1) = word

Category(words, delta) == [words |-> words, delta |-> delta]

\* the keyword tests of heuristic_boost, in the order the code runs them
categories(variant) ==
    IF variant = "heuristic"
    THEN << Category({"bug", "slow", "crash", "error", "broken", "terrible",
                      "awful"}, -20),
            Category({"expensive", "costly", "overpriced"}, -10),
            Category({"easy", "great", "excellent", "amazing", "perfect",
                      "love"}, 20),
            Category({"fast", "quick", "efficient", "smooth"}, 10) >>
    ELSE << Category({"bug", "slow", "crash", "error", "broken", "terrible",
                      "awful", "horrible"}, -20),
            Category({"expensive", "costly", "overpriced", "pricey"}, -10),
            Category({"difficult", "hard", "complex", "confusing"}, -15),
            Category({"easy", "great", "excellent", "amazing", "perfect",
                      "love", "fantastic"}, 20),
            Category({"fast", "quick", "efficient", "smooth", "responsive"}, 10),
            Category({"intuitive", "user-friendly", "simple",
                      "straightforward"}, 15) >>

\* any(word in text_lower for word in [...])
matches(text_lower, category) ==
    \E word \in category.words : Contains(text_lower, word)

\* the deltas of the tests that fire, in code order
RECURSIVE matched_deltas(_, _, _)
matched_deltas(text_lower, cats, k) ==
    IF k > Len(cats) THEN <<>>
    ELSE (IF matches(text_lower, cats[k]) THEN <<cats[k].delta>> ELSE <<>>)
           \o matched_deltas(text_lower, cats, k + 1)

\* nudges that would be clamped after every step
RECURSIVE apply_nudges_clamping(_, _)
apply_nudges_clamping(score, deltas) ==
    IF deltas = <<>> THEN score
    ELSE LET s == score + Head(deltas) IN
         apply_nudges_clamping(IF s > 100 THEN 100 ELSE IF s < -100 THEN -100 ELSE s,
                               Tail(deltas))

\* "score -= d" / "score += d", one after the other
RECURSIVE apply_nudges(_, _)
apply_nudges(score, deltas) ==
    IF deltas = <<>> THEN score
    ELSE apply_nudges(score + Head(deltas), Tail(deltas))

\* a clamp that would bound the score from below only
clamp_below(score) == IF score < -100 THEN -100 ELSE score

\* max(-1.0, min(1.0, score))
clamp(score) == IF score > 100 THEN 100 ELSE IF score < -100 THEN -100 ELSE score

\* heuristic_boost
heuristic_boost(variant, text, score) ==
    clamp(apply_nudges(score, matched_deltas(lower(text), categories(variant), 1)))

\* "if adjusted_score > 0.05 ... elif adjusted_score < -0.05 ... else"
heuristic_label(adjusted_score) ==
    IF adjusted_score > PositiveThreshold THEN "positive"
    ELSE IF adjusted_score < NegativeThreshold THEN "negative"
    ELSE "neutral"

\* the loop body of analyze_sentiment_*: a review without text is skipped
analyze_review(variant, review, raw_score) ==
    LET text == Get(review, "content", Get(review, "review_text", "")) IN
    IF text = "" THEN review
    ELSE LET adjusted_score == heuristic_boost(variant, text, raw_score) IN
         [sentiment_score |-> adjusted_score,
          sentiment_label |-> heuristic_label(adjusted_score),
          sentiment_confidence |-> Abs(adjusted_score)] @@ review

analyze_sentiment_heuristics(variant, revs, raws) ==
    [k \in DOMAIN revs |-> analyze_review(variant, revs[k], raws[k])]

ScoreTexts ==
    { "", "Works as advertised", "Buggy and expensive", "It is buggy",
      "Too expensive", "Hard to learn", "Great product",
      "Fast, great and intuitive", "Great but buggy", "Horrible",
      "Easy, fast, simple, but slow, pricey and confusing",
      "Quick to set up", "Excellent, efficient and user-friendly",
      "Great but buggy and expensive", "Slow, buggy and broken" }

\* texts scored side by side under one compound score
PairTexts ==
    { "Works as advertised", "Buggy and expensive", "It is buggy",
      "Great product", "Great but buggy and expensive",
      "Slow, buggy and broken" }

\* compound scores on a grid of 0.05
RawScores == {5 * k : k \in -20..20}

ScoreReviews == {[content |-> t] : t \in ScoreTexts}
                  \cup {[review_text |-> "Great but buggy"]}

ScoreInit ==
    /\ OrchIdle /\ ProbeIdle /\ SideIdle
    /\ scorer \in {"production", "direct", "heuristic"}
    /\ reviews \in {<<r>> : r \in ScoreReviews}
                   \cup {<<[content |-> t], [content |-> u]>> : t, u \in PairTexts}
    /\ raw_scores \in {[k \in DOMAIN reviews |-> x] : x \in RawScores}
    /\ scored = FALSE

AnalyzeReviews ==
    /\ scorer # "none" /\ ~ scored
    /\ reviews' = analyze_sentiment_heuristics(scorer, reviews, raw_scores)
    /\ scored' = TRUE
    /\ UNCHANGED <<scorer, raw_scores, orch_vars, probe_vars, side_vars>>

SpecScore == ScoreInit /\ [][AnalyzeReviews]_vars

-----------------------------------------------------------------------------
(* Two run_scraping_task invocations on one event loop.  A coroutine is    *)
(* suspended only at the await of line 821 (time.sleep blocks the loop),   *)
(* so each invocation runs atomically from one await to the next.          *)

RunIds == {1, 2}

MaxOverlapLen == 2

OverlapRequests ==
    {cs \in UNION {[1..n -> {"Sage", "Xero"}] : n \in 0..MaxOverlapLen} :
        \A a, b \in DOMAIN cs : cs[a] = cs[b] => a = b}

OverlapMaxReviews == 10

NotStarted(companies) ==
    [pc |-> "start", companies |-> companies, i |-> 1, all_reviews |-> <<>>]

\* lines 877-883: the object published at the end
CompletedStatus(companies, revs) ==
    [status |-> "completed",
     progress |-> [company \in Range(companies) |->
                     count_company_name(revs, company)],
     total_reviews |-> Len(revs)]

OverlapInit ==
    /\ OrchIdle /\ ProbeIdle /\ ScoreIdle
    /\ product_sentiments = <<>> /\ overall = NoOverall
    /\ runs \in [RunIds -> {NotStarted(cs) : cs \in OverlapRequests}]
    /\ publisher = 0
    /\ RestIdle

\* lines 792-821: from the call to the first await; with no company the
\* task runs to its end (lines 862-885) without being suspended
OverlapBegin(r) ==
    /\ runs[r].pc = "start"
    /\ publisher' = r
    /\ IF runs[r].companies = <<>>
       THEN /\ scraping_status' = CompletedStatus(<<>>, <<>>)
            /\ runs' = [runs EXCEPT ![r].pc = "done"]
       ELSE /\ scraping_status' = [status |-> "running", progress |-> EmptyDict,
                                   total_reviews |-> 0]
            /\ runs' = [runs EXCEPT ![r].pc = "await"]
    /\ UNCHANGED <<app, request, csv, pc, i, all_reviews, company_results,
                   errors, table, response, task_max_reviews, trace, inserts,
                   probe_vars, score_vars, agg_vars, rest_vars>>

\* lines 821-860 once the await of line 821 returns, then either the next
\* pass up to its await or lines 862-885
OverlapResume(r) ==
    /\ runs[r].pc = "await"
    /\ LET me == runs[r]
           company == me.companies[me.i]
           capterra_url ==
               capterra_url_of(load_company_urls_from_csv(csv), company)
       IN \E visit \in SiteVisits(target_url(company, capterra_url)) :
            LET company_reviews == scrape_capterra_reviews_async(
                                       company, capterra_url, OverlapMaxReviews, visit)
                collected == me.all_reviews \o company_reviews
                \* lines 855-856: written through the global name
                updated == [scraping_status EXCEPT
                              !.progress = (company :> Len(company_reviews)) @@ @,
                              !.total_reviews = Len(collected)]
            IN IF me.i < Len(me.companies)
               THEN /\ scraping_status' = updated
                    /\ publisher' = publisher
                    /\ runs' = [runs EXCEPT ![r].i = me.i + 1,
                                            ![r].all_reviews = collected]
               ELSE /\ scraping_status' = CompletedStatus(me.companies, collected)
                    /\ publisher' = r
                    /\ runs' = [runs EXCEPT ![r].pc = "done",
                                            ![r].all_reviews = collected]
    /\ UNCHANGED <<app, request, csv, pc, i, all_reviews, company_results,
                   errors, table, response, task_max_reviews, trace, inserts,
                   probe_vars, score_vars, agg_vars, rest_vars>>

NextOverlap == \E r \in RunIds : OverlapBegin(r) \/ OverlapResume(r)

SpecOverlap == OverlapInit /\ [][NextOverlap]_vars

-----------------------------------------------------------------------------
(* Labelling: analyze_sentiment and store_reviews_in_supabase over every   *)
(* compound score, in hundredths                                           *)

Compounds == -100..100

\* the reviews handed over: without a score, or with the score under the
\* older key
Unscored == { [source |-> "capterra", review_text |-> "Works as advertised"],
              [source |-> "capterra", review_text |-> "Works as advertised",
               sentiment_compound |-> -5] }

LabelInit ==
    /\ OrchIdle /\ ProbeIdle /\ SideIdle
    /\ scorer = "integrated"
    /\ raw_scores \in {<<s>> : s \in Compounds}
    /\ reviews \in {<<r>> : r \in Unscored}
    /\ scored = FALSE

\* lines 321-324 with the compound score the analyzer gives the text
LabelAnalyze ==
    /\ scorer = "integrated" /\ ~ scored /\ inserts = <<>>
    /\ LET sentiment == sentiment_of(raw_scores[1]) IN
       reviews' = << [sentiment_score |-> sentiment.sentiment_score,
                      sentiment_label |-> sentiment.sentiment_label]
                       @@ reviews[1] >>
    /\ scored' = TRUE
    /\ UNCHANGED <<scorer, raw_scores, orch_vars, probe_vars, side_vars>>

\* store_reviews_in_supabase on the reviews as they are
LabelStore ==
    /\ scorer = "integrated" /\ inserts = <<>>
    /\ \E insert_ok \in BOOLEAN :
         LET store == store_reviews_in_supabase(reviews, insert_ok) IN
         /\ table' = table \o store.rows
         /\ inserts' = inserts \o store.issued
    /\ UNCHANGED <<app, request, csv, pc, i, all_reviews, company_results, errors,
                   response, task_max_reviews, scraping_status, trace,
                   probe_vars, score_vars, side_vars>>

NextLabel == LabelAnalyze \/ LabelStore

SpecLabel == LabelInit /\ [][NextLabel]_vars

-----------------------------------------------------------------------------
(* Aggregation: calculate_overall_sentiment (multi_product_sentiment.py    *)
(* 34-68, test_capterra_direct.py 35-69) and summarize_sentiment           *)
(* (real_scrapers.py 357-380)                                              *)

AggThreshold == 10

\* a count that would leave the scores on a threshold out of every class
count_strictly_neutral(list) ==
    Cardinality({k \in DOMAIN list :
                    list[k] > -AggThreshold /\ list[k] < AggThreshold})

\* line 51
count_neutral(list) ==
    Cardinality({k \in DOMAIN list :
                    -AggThreshold <= list[k] /\ list[k] <= AggThreshold})

\* calculate_overall_sentiment; the mean sum/len is compared with 0.1 as
\* sum against 0.1 * len
calculate_overall_sentiment(scores) ==
    IF scores = <<>>
    THEN [score |-> Ratio(0, 1), label |-> "neutral", totalProducts |-> 0,
          positiveProducts |-> 0, negativeProducts |-> 0, neutralProducts |-> 0]
    ELSE [score |-> Ratio(Sum(scores), Len(scores)),
          label |-> IF Sum(scores) > AggThreshold * Len(scores) THEN "positive"
                    ELSE IF Sum(scores) < -AggThreshold * Len(scores) THEN "negative"
                    ELSE "neutral",
          totalProducts |-> Len(scores),
          positiveProducts |->
              Cardinality({k \in DOMAIN scores : scores[k] > AggThreshold}),
          negativeProducts |->
              Cardinality({k \in DOMAIN scores : scores[k] < -AggThreshold}),
          neutralProducts |-> count_neutral(scores)]

\* round(n / d, 2) on hundredths: the nearest whole hundredth, a tie going
\* to the even one (in the code a tie falls as the binary value of the
\* quotient lies)
Round2(n, d) ==
    LET q == n \div d
        r == n - q * d
    IN IF 2 * r < d THEN q
       ELSE IF 2 * r > d THEN q + 1
       ELSE IF q % 2 = 0 THEN q ELSE q + 1

\* summarize_sentiment
summarize_sentiment(company, revs) ==
    IF revs = <<>>
    THEN [company |-> company, avg_sentiment_score |-> 0, total_reviews |-> 0,
          source_platforms |-> {}]
    ELSE [company |-> company,
          avg_sentiment_score |-> Round2(Sum(sentiment_scores(revs)), Len(revs)),
          total_reviews |-> Len(revs),
          source_platforms |->
              {Get(revs[k], "platform", Get(revs[k], "source", "")) :
                  k \in DOMAIN revs}]

MaxProducts == 3

ProductScores == {-50, -11, -10, 0, 10, 11, 50}

AggregateInit ==
    /\ OrchIdle /\ ProbeIdle /\ ScoreIdle
    /\ runs = <<>> /\ publisher = 0
    /\ product_sentiments \in UNION {[1..n -> ProductScores] : n \in 0..MaxProducts}
    /\ overall = NoOverall
    /\ RestIdle

\* line 149: company_data["overallSentiment"] = calculate_overall_sentiment(...)
Aggregate ==
    /\ overall = NoOverall
    /\ overall' = [computed |-> TRUE]
                    @@ calculate_overall_sentiment(product_sentiments)
    /\ UNCHANGED <<product_sentiments, orch_vars, probe_vars, score_vars,
                   overlap_vars, rest_vars>>

SpecAggregate == AggregateInit /\ [][Aggregate]_vars

-----------------------------------------------------------------------------
(* The cap on a scrape call: scrape_capterra_playwright (capterra_scraper  *)
(* 138-242) and scrape_g2_direct (direct_scrapers.py 35-189)               *)

direct_review_selectors == <<".paper.paper--neutral.p-lg.mb-0",
                             "[data-testid='review-card']", ".review-card",
                             ".review", ".review-item", ".review-container">>

direct_text_selectors == <<".review-text", ".content",
                           "[data-testid='review-text']", ".review-body", "p",
                           ".description", ".review-content">>

direct_rating_selectors == <<".rating", ".stars", "[data-testid='rating']",
                             ".score", ".star-rating", ".review-rating">>

\* direct_scrapers.py lines 70-76: soup.select never raises
RECURSIVE direct_review_blocks(_, _)
direct_review_blocks(page, k) ==
    IF k > Len(direct_review_selectors) THEN <<>>
    ELSE LET r == query_selector_all(page, direct_review_selectors[k]) IN
         IF r.kind = "list" /\ r.elements # <<>> THEN r.elements
         ELSE direct_review_blocks(page, k + 1)

\* lines 100-105: block.select(selector)[0].get_text(strip=True)
RECURSIVE direct_content(_, _, _)
direct_content(block, k, content) ==
    IF k > Len(direct_text_selectors) THEN content
    ELSE LET r == query_selector(block, direct_text_selectors[k]) IN
         IF r.kind = "node"
         THEN IF Len(StripOrEmpty(r.text)) > MinProbeContent
              THEN StripOrEmpty(r.text)
              ELSE direct_content(block, k + 1, StripOrEmpty(r.text))
         ELSE direct_content(block, k + 1, content)

\* lines 122-129: get("aria-label", "") or get_text()
RECURSIVE direct_rating(_, _)
direct_rating(block, k) ==
    IF k > Len(direct_rating_selectors) THEN 0
    ELSE LET r == query_selector(block, direct_rating_selectors[k])
             text == IF r.kind = "node"
                     THEN (IF Truthy(r.aria) THEN r.aria ELSE StripOrEmpty(r.text))
                     ELSE ""
         IN IF r.kind = "node" /\ rating_match(text) # -1
            THEN rating_match(text)
            ELSE direct_rating(block, k + 1)

\* lines 87-182 for one block: what it appends to reviews (the reviewer,
\* pros and cons fields are left out); a block whose query raises is
\* skipped by the except at line 180
direct_extract(block, company_name, url) ==
    LET content == direct_content(block, 1, "") IN
    IF \E sel \in DOMAIN block : block[sel] = Throws THEN <<>>
    ELSE IF content = "" \/ Len(content) < MinProbeContent THEN <<>>
    ELSE << [company |-> company_name, platform |-> "g2", content |-> content,
             url |-> url, review_text |-> content,
             rating |-> direct_rating(block, 1), source |-> "g2",
             company_name |-> company_name] >>

Done(revs, probed) == [reviews |-> revs, probed |-> probed]

\* lines 83-182: the loop over the blocks, left at line 84 once
\* max_reviews records are held
RECURSIVE direct_loop(_, _, _, _, _, _)
direct_loop(blocks, k, revs, probed, max_reviews, company_name) ==
    IF k > Len(blocks) \/ Len(revs) >= max_reviews THEN Done(revs, probed)
    ELSE direct_loop(blocks, k + 1,
                     revs \o direct_extract(blocks[k], company_name, "g2_url"),
                     Append(probed, k), max_reviews, company_name)

\* scrape_g2_direct given the response of requests.get: an exception
\* (line 186), a status other than 200 (line 54), or the page
scrape_g2_direct(fetched, company_name, max_reviews) ==
    IF fetched.status # 200 THEN Done(<<>>, <<>>)
    ELSE direct_loop(direct_review_blocks(fetched.page, 1), 1, <<>>, <<>>,
                     max_reviews, company_name)

\* scrape_capterra_playwright on a loaded page, lines 138-242, with the
\* elements line 155 hands to the extraction
capterra_scrape(page, company_name, max_reviews) ==
    LET taken == Take(find_review_elements(page, 1), max_reviews) IN
    Done(extract_all(taken, company_name, SageUrl), [k \in DOMAIN taken |-> k])

MaxBlocks == 3
MaxCap == 3

Blocks == {CardPlain, CardNA, CardShadowed}

CapPages ==
    {(".review" :> Elements(bs)) :
        bs \in UNION {[1..n -> Blocks] : n \in 0..MaxBlocks}}
      \cup {(".review-card" :> Elements(<<CardNA>>))
              @@ (".review" :> Elements(<<CardPlain, CardPlain>>))}

CapInit ==
    /\ OrchIdle /\ ProbeIdle /\ ScoreIdle
    /\ runs = <<>> /\ publisher = 0
    /\ product_sentiments = <<>> /\ overall = NoOverall
    /\ CaptchaIdle /\ ProductsIdle
    /\ central = DEBUG_CONFIG /\ imported = NotImported
    /\ files = {} /\ browsers = 0
    /\ call \in {[done |-> FALSE, variant |-> v, page |-> pg, status |-> st,
                  max_reviews |-> m] :
                    v \in {"capterra", "g2_direct"}, pg \in CapPages,
                    st \in {200}, m \in 0..MaxCap}
               \cup {[done |-> FALSE, variant |-> "g2_direct",
                      page |-> NotFoundPage, status |-> 404, max_reviews |-> m] :
                        m \in 0..MaxCap}

CapCapterra ==
    /\ ~ call.done /\ call.variant = "capterra"
    /\ call' = [done |-> TRUE]
                 @@ capterra_scrape(call.page, "Sage", call.max_reviews) @@ call
    /\ UNCHANGED <<central, imported, files, browsers, orch_vars, probe_vars,
                   score_vars, overlap_vars, agg_vars, captcha_vars,
                   product_vars>>

CapDirect ==
    /\ ~ call.done /\ call.variant = "g2_direct"
    /\ call' = [done |-> TRUE]
                 @@ scrape_g2_direct(call, "Sage", call.max_reviews) @@ call
    /\ UNCHANGED <<central, imported, files, browsers, orch_vars, probe_vars,
                   score_vars, overlap_vars, agg_vars, captcha_vars,
                   product_vars>>

NextCap == CapCapterra \/ CapDirect

SpecCap == CapInit /\ [][NextCap]_vars

-----------------------------------------------------------------------------
(* Debug configuration (debug_config.py), debug capture and browsers of    *)
(* the navigators (capterra_scraper.py, playwright_scrapers.py)            *)

PRODUCTION_CONFIG == debug_flags(FALSE, FALSE, TRUE)
DEVELOPMENT_CONFIG == debug_flags(TRUE, TRUE, FALSE)

\* dict.update(kwargs)
update_debug_config(config, kwargs) ==
    [key \in DOMAIN config |-> IF key \in DOMAIN kwargs THEN kwargs[key]
                               ELSE config[key]]

\* the keyword arguments tried with update_debug_config
Kwargs == { [save_html |-> TRUE], [save_screenshots |-> FALSE],
            [cleanup_old_files |-> TRUE] }

\* str.replace(' ', '_')
RECURSIVE underscores(_)
underscores(s) == IF Len(s) = 0 THEN ""
                  ELSE (IF CharAt(s, 1) = " " THEN "_" ELSE CharAt(s, 1))
                         \o underscores(SubSeq(s, 2, Len(s)))

\* capterra_scraper.py line 118
RECURSIVE safe_name(_)
safe_name(s) ==
    IF Len(s) = 0 THEN ""
    ELSE (CASE CharAt(s, 1) = " " -> "_"
            [] CharAt(s, 1) = "&" -> "and"
            [] CharAt(s, 1) \in {"(", ")"} -> ""
            [] OTHER -> CharAt(s, 1))
           \o safe_name(SubSeq(s, 2, Len(s)))

NavCompany == "Unknown Co"

Screenshot(variant, name) == variant \o "_debug_" \o name \o ".png"
HtmlDump(variant, name) == variant \o "_debug_" \o name \o ".html"

\* a capture that would ignore the flags
capterra_capture_always(config, company_name) ==
    { Screenshot("capterra", safe_name(company_name)),
      HtmlDump("capterra", safe_name(company_name)) }

\* capterra_scraper.py lines 116-130: the files one scrape writes
capterra_capture(config, company_name) ==
    (IF config.save_screenshots
     THEN {Screenshot("capterra", safe_name(company_name))} ELSE {})
      \cup (IF config.save_html
            THEN {HtmlDump("capterra", safe_name(company_name))} ELSE {})

\* playwright_scrapers.py lines 129-137 and 319-327: no flag is read
playwright_capture(variant, company_name) ==
    { Screenshot(variant, underscores(company_name)),
      HtmlDump(variant, underscores(company_name)) }

\* glob("capterra_debug_*.png"), glob("capterra_debug_*.html")
IsCapterraDebugFile(f) ==
    Len(f) >= 15 /\ SubSeq(f, 1, 15) = "capterra_debug_"

\* cleanup_debug_files, capterra_scraper.py lines 20-38
cleanup_debug_files(config, disk) ==
    IF ~ config.cleanup_old_files THEN disk
    ELSE {f \in disk : ~ IsCapterraDebugFile(f)}

\* how one visit of a navigator goes
NavVisits == {"launch_fails", "goto_fails", "no_elements", "reviews"}

\* whether the path of the visit runs browser.close(): capterra_scraper.py
\* line 249 (finally); playwright_scrapers.py lines 159, 260, 349, 446
closes_browser(variant, visit) ==
    IF variant = "capterra" THEN visit # "launch_fails"
    ELSE visit \in {"no_elements", "reviews"}

\* an exit of the context manager that would leave the browsers running
playwright_exit_leaving(open) == open

\* the end of "async with async_playwright() as p": stopping the driver
\* ends the browsers it launched
playwright_exit(open) == 0

\* the browsers of one call: launched, closed by the call's own path, and
\* open when the call returns
Browsers(variant, visit) ==
    LET launched == IF visit = "launch_fails" THEN 0 ELSE 1
        closed == IF launched = 1 /\ closes_browser(variant, visit) THEN 1 ELSE 0
    IN [launched |-> launched, closed |-> closed,
        left |-> playwright_exit(launched - closed)]

NavInit ==
    /\ OrchIdle /\ ProbeIdle /\ ScoreIdle
    /\ runs = <<>> /\ publisher = 0
    /\ product_sentiments = <<>> /\ overall = NoOverall
    /\ CaptchaIdle /\ ProductsIdle
    /\ central = DEBUG_CONFIG /\ imported = NotImported
    /\ files \in {{}, {"capterra_debug_Sage.png", "g2_debug_Sage.html"}}
    /\ browsers = 0 /\ call = NoCall

NavUnchanged ==
    UNCHANGED <<orch_vars, probe_vars, score_vars, overlap_vars, agg_vars,
                captcha_vars, product_vars>>

\* capterra_scraper.py lines 15-18 and 259-260: the import
Import ==
    /\ imported = NotImported
    /\ imported' = [imported |-> TRUE] @@ central
    /\ files' = cleanup_debug_files(central, files)
    /\ UNCHANGED <<central, browsers, call>>
    /\ NavUnchanged

Configure(config) ==
    /\ central' = config
    /\ UNCHANGED <<imported, files, browsers, call>>
    /\ NavUnchanged

\* debug_config.py lines 34-38
UpdateDebugConfig == \E kwargs \in Kwargs : Configure(update_debug_config(central, kwargs))

\* lines 40-48
EnableDebugMode ==
    Configure(update_debug_config(central,
        [save_screenshots |-> TRUE, save_html |-> TRUE, cleanup_old_files |-> FALSE]))

\* lines 50-58
DisableDebugMode ==
    Configure(update_debug_config(central,
        [save_screenshots |-> FALSE, save_html |-> FALSE, cleanup_old_files |-> TRUE]))

\* lines 60-67
EnableMinimalDebug ==
    Configure(update_debug_config(central,
        [save_screenshots |-> TRUE, save_html |-> FALSE, cleanup_old_files |-> TRUE]))

\* lines 95-99
SetProductionMode == Configure(PRODUCTION_CONFIG)

\* lines 101-105
SetDevelopmentMode == Configure(DEVELOPMENT_CONFIG)

\* what a call leaves in the variable call
Called(variant, visit, wrote) ==
    [done |-> TRUE, variant |-> variant, visit |-> visit, wrote |-> wrote,
     central |-> central, browsers |-> Browsers(variant, visit)]

\* scrape_capterra_playwright, lines 68-256
NavCapterra ==
    /\ imported # NotImported
    /\ \E visit \in NavVisits :
         LET wrote == IF visit \in {"no_elements", "reviews"}
                      THEN capterra_capture(imported, NavCompany) ELSE {}
         IN /\ files' = files \cup wrote
            /\ call' = Called("capterra", visit, wrote)
            /\ browsers' = browsers + Browsers("capterra", visit).left
    /\ UNCHANGED <<central, imported>>
    /\ NavUnchanged

\* scrape_g2_playwright (lines 79-267) and scrape_glassdoor_playwright
\* (lines 269-453)
NavPlaywright(variant) ==
    /\ \E visit \in NavVisits :
         LET wrote == IF visit \in {"no_elements", "reviews"}
                      THEN playwright_capture(variant, NavCompany) ELSE {}
         IN /\ files' = files \cup wrote
            /\ call' = Called(variant, visit, wrote)
            /\ browsers' = browsers + Browsers(variant, visit).left
    /\ UNCHANGED <<central, imported>>
    /\ NavUnchanged

NavG2 == NavPlaywright("g2")

NavGlassdoor == NavPlaywright("glassdoor")

NextNav ==
    \/ Import \/ UpdateDebugConfig \/ EnableDebugMode \/ DisableDebugMode
    \/ EnableMinimalDebug \/ SetProductionMode \/ SetDevelopmentMode
    \/ NavCapterra \/ NavG2 \/ NavGlassdoor

SpecNav == NavInit /\ [][NextNav]_vars

-----------------------------------------------------------------------------
(* The requests-based fallback of scrape_capterra_reviews_async            *)
(* (integrated_review_scraper.py 303-403)                                  *)

\* soup.find_all('div', class_='review') or
\* soup.find_all('div', {'data-testid': 'review'})
fallback_elements(page) ==
    IF query_selector_all(page, ".review").elements # <<>>
    THEN query_selector_all(page, ".review").elements
    ELSE query_selector_all(page, "[data-testid=\"review\"]").elements

\* element.find(a) or element.find(b): a found tag is truthy
find_or(el, a, b) ==
    IF query_selector(el, a).kind = "node" THEN query_selector(el, a)
    ELSE query_selector(el, b)

\* lines 358-392 for element n (counted from 0)
fallback_review(el, n, company_name, url) ==
    LET content_elem == find_or(el, "p", ".content")
        content == IF content_elem.kind = "node"
                   THEN StripOrEmpty(content_elem.text) ELSE ""
        rating_elem == query_selector(el, "[aria-label*=\"star\"]")
        name_elem == find_or(el, ".reviewer-name", ".author")
    IN IF content = "" \/ Len(content) < MinContentLen THEN <<>>
       ELSE << [platform |-> "Capterra",
                company |-> company_name,
                reviewer_name |-> IF name_elem.kind = "node"
                                  THEN StripOrEmpty(name_elem.text) ELSE "Anonymous",
                rating |-> IF rating_elem.kind = "node" /\ Truthy(rating_elem.aria)
                              /\ rating_match(rating_elem.aria) # -1
                           THEN rating_match(rating_elem.aria) ELSE 0,
                content |-> content,
                title |-> "Review " \o ToString(n + 1),
                url |-> url] >>

RECURSIVE fallback_loop(_, _, _, _)
fallback_loop(els, n, company_name, url) ==
    IF n >= Len(els) THEN <<>>
    ELSE fallback_review(els[n + 1], n, company_name, url)
           \o fallback_loop(els, n + 1, company_name, url)

\* _fallback_scraping, lines 333-403, given what requests.get gives
fallback_scraping(company_name, capterra_url, max_reviews, fetched) ==
    IF fetched.status # 200 THEN <<>>
    ELSE fallback_loop(Take(fallback_elements(fetched.page), max_reviews), 0,
                       company_name, target_url(company_name, capterra_url))

\* scrape_capterra_reviews_async, lines 303-331, with its except branch:
\* the import at line 307 can raise; the call at line 312 cannot, since
\* scrape_capterra_playwright ends every exception in "return reviews"
\* (capterra_scraper.py lines 246-254)
scrape_or_fallback(company_name, capterra_url, max_reviews, import_ok, visit, fetched) ==
    IF ~ import_ok
    THEN [fallback |-> TRUE,
          reviews |-> fallback_scraping(company_name, capterra_url, max_reviews,
                                        fetched)]
    ELSE [fallback |-> FALSE,
          reviews |-> scrape_capterra_reviews_async(company_name, capterra_url,
                                                    max_reviews, visit)]

\* what requests.get gives the fallback: an exception or an error status
\* (raise_for_status), or the page
Fetches(url) == { [status |-> 0, page |-> NotFoundPage],
                  [status |-> 404, page |-> NotFoundPage],
                  [status |-> 200, page |-> PageAt(url)] }

FallbackInit ==
    /\ OrchIdle /\ ProbeIdle /\ ScoreIdle
    /\ runs = <<>> /\ publisher = 0
    /\ product_sentiments = <<>> /\ overall = NoOverall
    /\ CaptchaIdle /\ ProductsIdle
    /\ central = DEBUG_CONFIG /\ imported = NotImported
    /\ files = {} /\ browsers = 0
    /\ call \in {[done |-> FALSE, variant |-> "integrated", company |-> c,
                  url |-> u, max_reviews |-> m, import_ok |-> ok,
                  visit |-> v, fetched |-> f] :
                    c \in {"Xero"}, u \in {None, XeroUrl}, m \in TaskMaxReviews,
                    ok \in BOOLEAN, v \in SiteVisits(XeroUrl),
                    f \in Fetches(XeroUrl)}
               \cup
               {[done |-> FALSE, variant |-> "integrated", company |-> c,
                  url |-> u, max_reviews |-> m, import_ok |-> ok,
                  visit |-> v, fetched |-> f] :
                    c \in {"Sage"}, u \in {SageUrl}, m \in TaskMaxReviews,
                    ok \in BOOLEAN, v \in SiteVisits(SageUrl),
                    f \in Fetches(SageUrl)}

RealScraping ==
    /\ ~ call.done /\ call.variant = "integrated"
    /\ call' = [done |-> TRUE]
                 @@ scrape_or_fallback(call.company, call.url, call.max_reviews,
                                       call.import_ok, call.visit, call.fetched)
                 @@ call
    /\ UNCHANGED <<central, imported, files, browsers, orch_vars, probe_vars,
                   score_vars, overlap_vars, agg_vars, captcha_vars,
                   product_vars>>

SpecFallback == FallbackInit /\ [][RealScraping]_vars

-----------------------------------------------------------------------------
(* The CAPTCHA solver interface: captcha_solver_interface.py 220-376       *)

MaxInbox == 2
MaxClock == 1

StartScraping(platform) == [type |-> "start_scraping", platform |-> platform]
CaptchaSolution(id) == [type |-> "captcha_solution", captcha_id |-> id,
                        solution |-> "x7k2"]
CaptchaRequest(id) == [type |-> "captcha_request", captcha_id |-> id]
Status(message) == [type |-> "scraping_status", message |-> message]

\* line 316
captcha_id_at(time) == "captcha_" \o ToString(time)

\* the ids a client can name: they are the times at which a CAPTCHA was met
CaptchaIds == {captcha_id_at(time) : time \in 0..MaxClock}

CaptchaInit ==
    /\ OrchIdle /\ ProbeIdle /\ ScoreIdle
    /\ runs = <<>> /\ publisher = 0
    /\ product_sentiments = <<>> /\ overall = NoOverall
    /\ NavIdle /\ CaptchaIdle /\ ProductsIdle

CaptchaUnchanged ==
    UNCHANGED <<orch_vars, probe_vars, score_vars, overlap_vars, agg_vars,
                nav_vars, product_vars>>

\* the page's script: ws.send of a start_scraping or captcha_solution
ClientSend(c) ==
    /\ Len(sockets[c].inbox) < MaxInbox
    /\ \E message \in {StartScraping("g2"), StartScraping("glassdoor")}
                        \cup {CaptchaSolution(id) : id \in CaptchaIds} :
         sockets' = [sockets EXCEPT ![c].inbox = Append(@, message)]
    /\ UNCHANGED <<captcha_state, clock>>
    /\ CaptchaUnchanged

\* time passes
Tick ==
    /\ clock < MaxClock
    /\ clock' = clock + 1
    /\ UNCHANGED <<captcha_state, sockets>>
    /\ CaptchaUnchanged

\* lines 226-230, 237-251 and 270-333: the endpoint receives a
\* start_scraping and runs handle_scraping_request inside its own loop:
\* to the end of the scrape (no CAPTCHA, or an exception, lines 352-376), or
\* into the waiting loop of line 332
ReceiveStart(c) ==
    /\ sockets[c].at = "receive"
    /\ sockets[c].inbox # <<>> /\ Head(sockets[c].inbox).type = "start_scraping"
    /\ \E outcome \in {"error", "no_captcha", "captcha"} :
         IF outcome = "captcha"
         THEN /\ captcha_state' =
                   [captcha_state EXCEPT !.current_captcha = captcha_id_at(clock),
                                         !.waiting = TRUE, !.solved = FALSE]
              /\ sockets' = [sockets EXCEPT
                   ![c] = Socket("waiting", Tail(@.inbox),
                                 CaptchaRequest(captcha_id_at(clock)))]
         ELSE /\ sockets' = [sockets EXCEPT
                   ![c] = Socket("receive", Tail(@.inbox),
                                 IF outcome = "error"
                                 THEN Status("Error during scraping")
                                 ELSE [type |-> "scraping_complete"])]
              /\ UNCHANGED captcha_state
    /\ UNCHANGED clock
    /\ CaptchaUnchanged

\* lines 231-232 and 253-268: handle_captcha_solution
ReceiveSolution(c) ==
    /\ sockets[c].at = "receive"
    /\ sockets[c].inbox # <<>> /\ Head(sockets[c].inbox).type = "captcha_solution"
    /\ LET message == Head(sockets[c].inbox) IN
       IF captcha_state.current_captcha = message.captcha_id
       THEN /\ captcha_state' =
                 [captcha_state EXCEPT !.solution = message.solution,
                                       !.solved = TRUE, !.waiting = FALSE]
            /\ sockets' = [sockets EXCEPT
                 ![c] = Socket("receive", Tail(@.inbox),
                               Status("CAPTCHA solution received"))]
       ELSE /\ sockets' = [sockets EXCEPT ![c].inbox = Tail(@)]
            /\ UNCHANGED captcha_state
    /\ UNCHANGED clock
    /\ CaptchaUnchanged

\* lines 332-376: the waiting loop is left once captcha_state["waiting"] is
\* false; the scrape ends and the endpoint is back at receive_text
WaitExit(c) ==
    /\ sockets[c].at = "waiting"
    /\ ~ captcha_state.waiting
    /\ sockets' = [sockets EXCEPT
         ![c] = Socket("receive", @.inbox,
                       IF captcha_state.solved
                       THEN Status("CAPTCHA solved, continuing...")
                       ELSE Status("CAPTCHA solving failed"))]
    /\ UNCHANGED <<captcha_state, clock>>
    /\ CaptchaUnchanged

\* the steps of the endpoint coroutine of one connection
Endpoint(c) == ReceiveStart(c) \/ ReceiveSolution(c) \/ WaitExit(c)

NextCaptcha == Tick \/ \E c \in Conns : ClientSend(c) \/ Endpoint(c)

\* the event loop runs every coroutine that can run
SpecCaptcha ==
    /\ CaptchaInit /\ [][NextCaptcha]_vars
    /\ \A c \in Conns : WF_vars(Endpoint(c))

-----------------------------------------------------------------------------
(* Multi-product sentiment: multi_product_sentiment.py 70-151              *)

\* company_products_mapping.py: three of the companies, each product with
\* its Capterra url, in the order of the dict
COMPANY_PRODUCTS_MAPPING ==
    [Xero |-> << <<"Xero", "https://www.capterra.com/p/119802/Xero/revs/">> >>,
     AccessGroup |->
        << <<"Access Recruitment CRM", "https://www.capterra.com/p/110208/RDB-Pronet/">>,
           <<"Access LMS Evo", "https://www.capterra.com/p/267473/Access-LMS/">> >>,
     Sage |->
        << <<"SageHR", "https://www.capterra.com/p/128705/SageHR/#revs">>,
           <<"Sage 50cloud Accounting",
             "https://www.capterra.com/p/40636/Sage-50cloud-Accounting/revs/">>,
           <<"Sage Intacct", "https://www.capterra.com/p/157901/Sage-Intacct/revs/">> >>]

\* line 105
ProductMaxReviews == 10

\* lines 134-135: += len(reviews)
add_product(total, revs) == total + 1

add_reviews(total, revs) == total + Len(revs)

\* lines 110-116: the compound score of every review that has content
RECURSIVE product_sentiment_scores(_)
product_sentiment_scores(revs) ==
    IF revs = <<>> THEN <<>>
    ELSE (IF Truthy(Get(Head(revs), "content", None))
          THEN <<polarity_compound(Head(revs).content)>> ELSE <<>>)
           \o product_sentiment_scores(Tail(revs))

\* sum(r.get('rating', 0) for r in reviews)
RECURSIVE sum_ratings(_)
sum_ratings(revs) ==
    IF revs = <<>> THEN 0
    ELSE Get(Head(revs), "rating", 0) + sum_ratings(Tail(revs))

\* line 105: what scrape_capterra_playwright gives for a product; it raises,
\* gives [] when the page cannot be loaded, or the reviews of the page
product_reviews(product_name, scrape) ==
    IF scrape.visit = "loaded"
    THEN capterra_scrape(scrape.page, product_name, ProductMaxReviews).reviews
    ELSE <<>>

\* lines 103-146 for one product: the state of the loop is company_data
\* with the local product_sentiments
process_product(st, product_name, url, scrape) ==
    IF scrape.visit = "raises" THEN st
    ELSE LET revs == product_reviews(product_name, scrape)
             scores == product_sentiment_scores(revs)
         IN IF revs = <<>> \/ scores = <<>> THEN st
            ELSE [st EXCEPT
                   !.product_sentiments =
                       Append(@, Ratio(Sum(scores), Len(scores))),
                   !.products = (product_name :>
                       [sentiment |-> Ratio(Sum(scores), Len(scores)),
                        reviews |-> Len(revs),
                        averageRating |-> Ratio(sum_ratings(revs), Len(revs)),
                        platform |-> "capterra",
                        url |-> url,
                        recentReviews |-> Take(revs, 5)]) @@ @,
                   !.platforms.capterra = add_reviews(@, revs),
                   !.totalReviews = add_reviews(@, revs)]

\* lines 102-146: for product_name, url in products.items()
RECURSIVE product_loop(_, _, _)
product_loop(st, products, scrapes) ==
    IF products = <<>> THEN st
    ELSE product_loop(process_product(st, Head(products)[1], Head(products)[2],
                                      Head(scrapes)),
                      Tail(products), Tail(scrapes))

\* the sum of a list of means, on their common denominator
RECURSIVE sum_means(_)
sum_means(means) ==
    IF means = <<>> THEN Ratio(0, 1)
    ELSE LET rest == sum_means(Tail(means)) IN
         Ratio(Head(means).num * rest.den + rest.num * Head(means).den,
               Head(means).den * rest.den)

\* calculate_overall_sentiment (lines 34-68) on the means of the products,
\* each compared with 0.1 on its own denominator
overall_of_means(means) ==
    IF means = <<>>
    THEN [score |-> Ratio(0, 1), label |-> "neutral", totalProducts |-> 0,
          positiveProducts |-> 0, negativeProducts |-> 0, neutralProducts |-> 0]
    ELSE LET total == sum_means(means)
             above(m) == m.num > AggThreshold * m.den
             below(m) == m.num < -AggThreshold * m.den
         IN [score |-> Ratio(total.num, total.den * Len(means)),
             label |-> IF total.num > AggThreshold * total.den * Len(means)
                       THEN "positive"
                       ELSE IF total.num < -AggThreshold * total.den * Len(means)
                       THEN "negative" ELSE "neutral",
             totalProducts |-> Len(means),
             positiveProducts |-> Cardinality({k \in DOMAIN means : above(means[k])}),
             negativeProducts |-> Cardinality({k \in DOMAIN means : below(means[k])}),
             neutralProducts |->
                 Cardinality({k \in DOMAIN means :
                                 ~ above(means[k]) /\ ~ below(means[k])})]

\* analyze_company_sentiment, lines 70-151
analyze_company_sentiment(company_name, scrapes) ==
    IF company_name \notin DOMAIN COMPANY_PRODUCTS_MAPPING
    THEN [error |-> "No products found for company: " \o company_name,
          company |-> company_name, success |-> FALSE]
    ELSE LET st == product_loop(
                     [company |-> company_name, products |-> <<>>,
                      totalReviews |-> 0,
                      platforms |-> [capterra |-> 0, g2 |-> 0, glassdoor |-> 0],
                      success |-> TRUE, product_sentiments |-> <<>>],
                     COMPANY_PRODUCTS_MAPPING[company_name], scrapes)
         IN [company |-> st.company, products |-> st.products,
             overallSentiment |-> overall_of_means(st.product_sentiments),
             totalReviews |-> st.totalReviews, platforms |-> st.platforms,
             success |-> TRUE]

\* what the scrape of one product can meet
ProductScrapes ==
    {[visit |-> "raises"], [visit |-> "goto_fails"]}
      \cup {[visit |-> "loaded", page |-> (".review" :> Elements(bs))] :
              bs \in {<<>>, <<CardNA>>, <<CardPlain>>, <<CardFull, CardNA>>,
                      <<CardFull, CardMid>>}}

ProductsOf(company_name) ==
    IF company_name \in DOMAIN COMPANY_PRODUCTS_MAPPING
    THEN COMPANY_PRODUCTS_MAPPING[company_name] ELSE <<>>

ProductsInit ==
    /\ OrchIdle /\ ProbeIdle /\ ScoreIdle
    /\ runs = <<>> /\ publisher = 0
    /\ product_sentiments = <<>> /\ overall = NoOverall
    /\ NavIdle /\ CaptchaIdle
    /\ \E company_name \in DOMAIN COMPANY_PRODUCTS_MAPPING \cup {"Nobody Ltd"} :
         analysis \in {[company_name |-> company_name, scrapes |-> sc] :
                          sc \in [DOMAIN ProductsOf(company_name) -> ProductScrapes]}
    /\ company_data = NoCompanyData

AnalyzeCompany ==
    /\ company_data = NoCompanyData /\ analysis # NoAnalysis
    /\ company_data' = analyze_company_sentiment(analysis.company_name,
                                                 analysis.scrapes)
    /\ UNCHANGED <<analysis, orch_vars, probe_vars, score_vars, overlap_vars,
                   agg_vars, nav_vars, captcha_vars>>

SpecProducts == ProductsInit /\ [][AnalyzeCompany]_vars

-----------------------------------------------------------------------------
(* Claims                                                                  *)

\* the batches an integrated run handed to the database, row by row
IntegratedRun == app \in {"live", "task"}

\* C1: every row that store_reviews_in_supabase inserts for a review of an
\* integrated live_scraping run carries that review's own company,
\* platform, (non-empty) content, reviewer name and rating.
C1_RowCarriesReviewValues ==
    app = "live" =>
      \A b \in DOMAIN inserts : \A k \in DOMAIN inserts[b] :
        LET row == inserts[b][k]
            review == all_reviews[k]
        IN /\ row.company = review.company
           /\ row.platform = review.platform
           /\ row.content = review.content /\ row.content # ""
           /\ row.author = review.reviewer_name
           /\ row.rating = review.rating

FailedPasses == {k \in DOMAIN trace : trace[k].visit \in {"launch_fails", "goto_fails"}}

\* C2: in a live_scraping run the errors list holds exactly one message per
\* company whose scrape failed (browser launch, navigation or page error)
\* and none for the others, and the companies after a failed one are still
\* processed.
C2_OneErrorPerFailedCompany ==
    app = "live" =>
      /\ Len(errors) = Cardinality(FailedPasses)
      /\ (pc = "done" /\ response.kind = "returned" /\ response.body.success)
            => Len(trace) = Len(request)

Cap(a) == IF a = "demo" THEN MaxCompaniesDemo ELSE MaxCompaniesLive

\* C3 as stated: for every request, of any length, live_scraping returns a
\* ScrapingResult and never propagates an exception to its caller.
C3_AlwaysReturnsSummary ==
    (app \in {"live", "demo"} /\ pc = "done") => response.kind = "returned"

\* C3, amended: for every request whose company list is within the
\* per-request cap (5 integrated, 10 demo), whatever the catalog, the
\* scrapes and the insert do, live_scraping returns a ScrapingResult and
\* propagates no exception; a longer list is answered by raising
\* HTTPException(400).
C3_ReturnsSummaryWithinCap ==
    app \in {"live", "demo"} =>
      /\ response.kind = "raised" => Len(request) > Cap(app)
      /\ pc # "done" => response = NoResponse
      /\ pc = "done" =>
           IF Len(request) <= Cap(app)
           THEN /\ response.kind = "returned"
                /\ response.body.success =
                     (load_company_urls_from_csv(csv) # EmptyDict)
           ELSE response = Raised(400)

\* C3 witness: a run with a failed scrape and a failed insert still answers
\* with a summary
C3_Witness ==
    /\ app = "live" /\ pc = "done" /\ response.kind = "returned"
    /\ FailedPasses # {}
    /\ inserts # <<>> /\ table = <<>>

Collected == Sum([k \in DOMAIN trace |-> trace[k].collected])

InsertFailed == inserts # <<>> /\ table = <<>>

\* C4: when the final batch insert of a live_scraping run fails, the summary
\* has storedInSupabase = false while totalReviews, companyResults and
\* averageSentiment still cover every review collected in the run, success
\* stays true and no exception is raised.
C4_FailedInsertKeepsResults ==
    (app = "live" /\ pc = "done" /\ InsertFailed) =>
      /\ response.kind = "returned"
      /\ response.body.success
      /\ response.body.storedInSupabase = FALSE
      /\ response.body.totalReviews = Collected
      /\ Collected = Len(all_reviews)
      /\ response.body.averageSentiment =
           Ratio(Sum([k \in DOMAIN all_reviews |-> all_reviews[k].sentiment_score]),
                 Collected)
      /\ LET kept == SelectSeq(trace, LAMBDA e : e.collected > 0) IN
         /\ Len(response.body.companyResults) = Len(kept)
         /\ \A k \in DOMAIN kept :
              /\ response.body.companyResults[k].company = kept[k].company
              /\ response.body.companyResults[k].totalReviews = kept[k].collected

\* C4 witness: reviews of two companies were collected and the insert failed
C4_Witness ==
    /\ app = "live" /\ pc = "done" /\ InsertFailed
    /\ Len(company_results) = 2 /\ Len(all_reviews) = 3

\* the review elements one loop pass handed to the extractor
Visited(k) ==
    Take(find_review_elements(PageAt(trace[k].url), 1),
         IF app = "live" THEN LiveMaxReviews ELSE task_max_reviews)

\* the elements among els whose probed content is longer than the minimum
LongEnough(els) ==
    {n \in DOMAIN els : Len(probe_content(els[n], 1, "")) > MinContentLen}

\* C5: an element whose extracted content is empty or not longer than the
\* minimum content length produces no record ("ok" is dropped, a
\* 25-character content is kept), and every review in all_reviews, the list
\* handed to the batch insert, has content that passed the gate.
C5_ShortContentNeverCollected ==
    /\ \A k \in DOMAIN all_reviews :
         /\ all_reviews[k].content # ""
         /\ Len(all_reviews[k].content) > MinContentLen
    /\ IntegratedRun =>
         \A k \in DOMAIN trace :
           trace[k].visit = "loaded" =>
             trace[k].collected = Cardinality(LongEnough(Visited(k)))
    /\ \A b \in DOMAIN inserts : Len(inserts[b]) = Len(all_reviews)

\* C5 witness: a run read the Sage page (the "n/a" card dropped, the
\* 25-character content kept) and the Xero page (the "ok" card dropped)
C5_Witness ==
    /\ app = "live" /\ pc = "done" /\ inserts # <<>>
    /\ \E k \in DOMAIN trace :
         /\ trace[k].url = SageUrl /\ trace[k].visit = "loaded"
         /\ trace[k].collected = 2 /\ Len(Visited(k)) = 3
    /\ \E k \in DOMAIN trace :
         /\ trace[k].url = XeroUrl /\ trace[k].visit = "loaded"
         /\ trace[k].collected < Len(Visited(k))
    /\ \E k \in DOMAIN all_reviews : Len(all_reviews[k].content) = 25

\* the text the scorer read from review k
ScoredText(k) == Get(reviews[k], "content", Get(reviews[k], "review_text", ""))

\* C6: the keyword-heuristic scorers label an adjusted score a positive iff
\* a >= 0.05, negative iff a <= -0.05 and neutral otherwise, so that 0.05
\* itself is positive and -0.05 itself is negative.
C6_ThresholdsInclusive ==
    scored =>
      \A k \in DOMAIN reviews :
        ScoredText(k) # "" =>
          LET a == reviews[k].sentiment_score
              label == reviews[k].sentiment_label
          IN /\ (label = "positive") <=> (a >= PositiveThreshold)
             /\ (label = "negative") <=> (a <= NegativeThreshold)
             /\ (label = "neutral") <=>
                  (a < PositiveThreshold /\ a > NegativeThreshold)

\* the tests of the running scorer that fire on review k
Fired(k) ==
    {c \in DOMAIN categories(scorer) :
        matches(lower(ScoredText(k)), categories(scorer)[c])}

RECURSIVE SetSum(_, _)
SetSum(S, f) ==
    IF S = {} THEN 0
    ELSE LET c == CHOOSE c \in S : TRUE IN f[c] + SetSum(S \ {c}, f)

\* base score of review k plus the delta of every test that fired,
\* each counted once
Nudged(k) ==
    raw_scores[k]
      + SetSum(Fired(k), [c \in DOMAIN categories(scorer) |->
                             categories(scorer)[c].delta])

\* the "bug/slow/crash" test and the "expensive/costly" test come first in
\* every scorer
BugAndCost == {1, 2}

\* pairs of reviews scored under one base: j fires both tests, k neither,
\* and they agree on every other test
BothVersusNeither ==
    {<<j, k>> \in (DOMAIN reviews) \X (DOMAIN reviews) :
        /\ BugAndCost \subseteq Fired(j)
        /\ Fired(k) = Fired(j) \ BugAndCost
        /\ raw_scores[j] = raw_scores[k]}

\* C7 as stated: for every base score in [-1, 1] the text matching both
\* tests scores exactly 0.2 + 0.1 lower than the text matching neither.
C7_AlwaysThreeTenthsLower ==
    scored =>
      \A p \in BothVersusNeither :
        reviews[p[1]].sentiment_score = reviews[p[2]].sentiment_score - 30

Orders(n) ==
    {f \in [1..n -> 1..n] : \A a, b \in 1..n : f[a] = f[b] => a = b}

\* C7, amended: with the base score held constant, the text matching both
\* tests scores exactly 0.3 lower than the text matching neither whenever
\* neither score is clamped, and between 0 and 0.3 lower otherwise; texts
\* that fire the same tests score the same however many keywords of a test
\* they hold; and applying the matched deltas in any order gives the score.
C7_NudgesStackUntilClamped ==
    scored =>
      /\ \A p \in BothVersusNeither :
           LET both == reviews[p[1]].sentiment_score
               neither == reviews[p[2]].sentiment_score
           IN /\ (Nudged(p[2]) <= 100 /\ Nudged(p[1]) >= -100)
                   => both = neither - 30
              /\ both <= neither /\ both >= neither - 30
      /\ \A j, k \in DOMAIN reviews :
           (Fired(j) = Fired(k) /\ raw_scores[j] = raw_scores[k]
              /\ ScoredText(j) # "" /\ ScoredText(k) # "")
             => reviews[j].sentiment_score = reviews[k].sentiment_score
      /\ \A k \in DOMAIN reviews :
           ScoredText(k) # "" =>
             LET deltas == matched_deltas(lower(ScoredText(k)),
                                          categories(scorer), 1)
             IN \A f \in Orders(Len(deltas)) :
                  clamp(apply_nudges(raw_scores[k],
                                     [n \in 1..Len(deltas) |-> deltas[f[n]]]))
                    = reviews[k].sentiment_score

\* C7 witness: a pair scored under base 0.5, neither clamped, 0.3 apart
C7_Witness ==
    /\ scored /\ Len(reviews) = 2
    /\ ScoredText(1) = "Great but buggy and expensive"
    /\ ScoredText(2) = "Great product"
    /\ raw_scores[1] = 50
    /\ reviews[1].sentiment_score = 40 /\ reviews[2].sentiment_score = 70

\* C8: heuristic_boost returns min(1, max(-1, base + sum of the matched
\* deltas)), so no stored score is outside [-1, 1]; a base of 0.95 with
\* every positive test matched gives exactly 1.0.
C8_ScoreIsClampedSum ==
    scored =>
      \A k \in DOMAIN reviews :
        ScoredText(k) # "" =>
          LET a == reviews[k].sentiment_score IN
          /\ a = (IF Nudged(k) > 100 THEN 100
                  ELSE IF Nudged(k) < -100 THEN -100 ELSE Nudged(k))
          /\ a >= -100 /\ a <= 100

\* C8 witness: base 0.95 and all three positive tests of the production
\* scorer matched: 1.0 is stored
C8_Witness ==
    /\ scored /\ scorer = "production" /\ Len(reviews) = 1
    /\ raw_scores[1] = 95
    /\ Fired(1) = {4, 5, 6}
    /\ reviews[1].sentiment_score = 100

\* the selectors of a list that found a node with a non-empty value
Matching(el, selectors, Value(_)) ==
    {k \in DOMAIN selectors :
        /\ query_selector(el, selectors[k]).kind = "node"
        /\ Value(query_selector(el, selectors[k])) # ""}

Earliest(S) == CHOOSE k \in S : \A j \in S : k <= j

TextOf(r) == StripOrEmpty(r.text)

\* the number a rating node holds, as text ("" when it holds none)
NumberOf(r) ==
    IF rating_text(r) # None /\ rating_match(rating_text(r)) # -1
    THEN rating_text(r) ELSE ""

\* C9: for the reviewer name, rating, content and title lists, when
\* several selectors match the element the value taken is that of the
\* earliest matching selector; a later selector's value is never the result
\* when an earlier one matched with a non-empty value.
C9_EarliestMatchWins ==
    extracted # <<>> =>
      LET got == extracted[1]
          names == Matching(element, name_selectors, TextOf)
          numbers == Matching(element, rating_selectors, NumberOf)
          texts == Matching(element, text_selectors, TextOf)
          titles == {k \in DOMAIN title_selectors :
                        query_selector(element, title_selectors[k]).kind = "node"}
      IN /\ names # {} => got.reviewer_name =
               TextOf(query_selector(element, name_selectors[Earliest(names)]))
         /\ numbers # {} => got.rating =
               rating_match(NumberOf(query_selector(element,
                                rating_selectors[Earliest(numbers)])))
         /\ texts # {} => got.content =
               TextOf(query_selector(element, text_selectors[Earliest(texts)]))
         /\ titles # {} => got.title =
               TextOf(query_selector(element, title_selectors[Earliest(titles)]))

\* the catalog's URL for a company, None or blank when it has none
CatalogUrl(company) == capterra_url_of(load_company_urls_from_csv(csv), company)

\* C10: in a run of live_scraping or run_scraping_task a requested company
\* without a catalog entry, or whose entry has no Capterra URL, is skipped:
\* the navigator is not invoked for it, no error is appended for it, it is
\* not in companyResults, and the companies after it are still processed.
C10_NoUrlCompanySkipped ==
    (IntegratedRun /\ pc \in {"loop", "done"}) =>
      /\ \A k \in DOMAIN trace :
           ~ Truthy(CatalogUrl(trace[k].company)) =>
             /\ trace[k].visit = "skipped"
             /\ trace[k].collected = 0
             /\ \A r \in DOMAIN company_results :
                  company_results[r].company # trace[k].company
             /\ \A e \in DOMAIN errors :
                  errors[e] # "Error scraping Capterra for " \o trace[k].company
      /\ (pc = "done" /\ (scraping_status.status = "completed"
                           \/ (response.kind = "returned"
                                 /\ response.body.success)))
            => Len(trace) = Len(request)

\* the review elements the page behind a URL yields
ElementsAt(url) == find_review_elements(PageAt(url), 1)

\* the max-reviews parameter of the run
MaxReviewsOfRun == IF app = "live" THEN LiveMaxReviews ELSE task_max_reviews

\* the loop passes that brought reviews, in order
Counted == SelectSeq(trace, LAMBDA e : e.collected > 0)

\* C11: for a company whose page yields N review elements, N not above the
\* max-reviews parameter, CompanyResult.totalReviews is the number of those
\* elements whose content passes the minimum-length gate (3 elements, one
\* of them "n/a", give 2), a page none of whose elements passes gives no
\* CompanyResult, and the run's totalReviews counts the same records.
C11_TotalReviewsCountsGatedElements ==
    IntegratedRun =>
      /\ Len(company_results) = Len(Counted)
      /\ \A j \in DOMAIN company_results :
           /\ company_results[j].company = Counted[j].company
           /\ Len(ElementsAt(Counted[j].url)) <= MaxReviewsOfRun
                => company_results[j].totalReviews =
                     Cardinality(LongEnough(ElementsAt(Counted[j].url)))
      /\ \A k \in DOMAIN trace :
           (trace[k].visit = "loaded"
              /\ Len(ElementsAt(trace[k].url)) <= MaxReviewsOfRun
              /\ LongEnough(ElementsAt(trace[k].url)) # {})
             => trace[k].collected > 0
      /\ (app = "live" /\ pc = "done" /\ response.kind = "returned"
            /\ response.body.success)
           => /\ response.body.companyResults = company_results
              /\ response.body.totalReviews =
                   Sum([j \in DOMAIN company_results |->
                          company_results[j].totalReviews])

\* C11 witness: the Sage page served three elements, one of them "n/a",
\* and the summary reports 2 for Sage and 2 for the run
C11_Witness ==
    /\ app = "live" /\ pc = "done" /\ response.kind = "returned"
    /\ Len(trace) = 1 /\ trace[1].url = SageUrl
    /\ Len(ElementsAt(SageUrl)) = 3
    /\ Len(response.body.companyResults) = 1
    /\ response.body.companyResults[1].totalReviews = 2
    /\ response.body.totalReviews = 2

\* C12: the run status follows idle -> running -> {completed | error}: it
\* is "idle" before run_scraping_task starts, "running" before any company
\* is processed, every started invocation ends with the status "completed"
\* or "error", and the status is never left at "running" after the task
\* returns and never goes back to "idle".
C12_StatusLifecycle ==
    /\ [][\/ scraping_status'.status = scraping_status.status
          \/ /\ scraping_status.status = "idle"
             /\ scraping_status'.status = "running"
          \/ /\ scraping_status.status = "running"
             /\ scraping_status'.status \in {"completed", "error"}]_vars
    /\ [](/\ pc = "start" => scraping_status.status = "idle"
          /\ pc = "loop" => scraping_status.status = "running"
          /\ trace # <<>> => scraping_status.status # "idle"
          /\ pc = "done" => scraping_status.status \in {"completed", "error"})
    /\ (pc = "start") ~>
         (pc = "done" /\ scraping_status.status \in {"completed", "error"})

\* C12 witness: a task over two companies ended with the status "completed"
C12_Witness ==
    /\ app = "task" /\ pc = "done" /\ Len(trace) = 2
    /\ scraping_status.status = "completed"

\* C13: in a live_scraping run the database insert is issued at most once,
\* only after the last requested company has been processed, with one row
\* for every review collected in the run; no row is inserted while
\* companies are still being scraped, and the returned stored flag is the
\* outcome of that insert (true when there was nothing to insert).
C13_SingleFinalInsert ==
    app \in {"live", "demo"} =>
      /\ Len(inserts) <= 1
      /\ pc # "done" => (inserts = <<>> /\ table = <<>>)
      /\ inserts # <<>> =>
           /\ Len(trace) = Len(request)
           /\ Len(inserts[1]) = Len(all_reviews) /\ all_reviews # <<>>
           /\ \A k \in DOMAIN all_reviews :
                /\ inserts[1][k].author = all_reviews[k].reviewer_name
                /\ inserts[1][k].rating = all_reviews[k].rating
                /\ inserts[1][k].sentiment_score = all_reviews[k].sentiment_score
           /\ table \in {<<>>, inserts[1]}
      /\ (pc = "done" /\ response.kind = "returned" /\ response.body.success)
           => /\ inserts = <<>> => (all_reviews = <<>> /\ table = <<>>)
              /\ response.body.storedInSupabase =
                   (IF inserts = <<>> THEN TRUE ELSE table = inserts[1])

\* C13 witness: two companies scraped, then one insert of the three reviews
\* succeeded
C13_Witness ==
    /\ app = "live" /\ pc = "done" /\ Len(trace) = 2
    /\ Len(inserts) = 1 /\ Len(inserts[1]) = 3 /\ table = inserts[1]
    /\ response.body.storedInSupabase

\* C14: no live_scraping request scrapes more companies than the cap (5
\* integrated, 10 demo): a request with a longer list is rejected before
\* any company is scraped or generated and before any insert is issued.
C14_CapBoundsTheRun ==
    app \in {"live", "demo"} =>
      /\ Len(trace) <= Cap(app)
      /\ Len(request) > Cap(app) =>
           /\ trace = <<>> /\ all_reviews = <<>> /\ company_results = <<>>
           /\ inserts = <<>> /\ table = <<>>
           /\ pc \in {"start", "done"}
           /\ pc = "done" => response = Raised(400)

\* C14 witness: a list of six companies was rejected by the integrated
\* handler
C14_Witness ==
    /\ app = "live" /\ Len(request) = MaxCompaniesLive + 1
    /\ pc = "done" /\ response = Raised(400) /\ trace = <<>>

\* C15: the global run status is only replaced wholesale, never mutated in
\* place, so that when two run_scraping_task invocations overlap the status
\* object one of them published never shows the other's progress or
\* total_reviews: its progress keys are companies of the publishing run
\* and its total_reviews is that run's count.
C15_NoCrossRunUpdates ==
    publisher \in RunIds =>
      LET me == runs[publisher] IN
      /\ DOMAIN scraping_status.progress \subseteq Range(me.companies)
      /\ scraping_status.total_reviews = Len(me.all_reviews)

\* the averages a summary carries
AveragesOf(body) ==
    {body.averageSentiment}
      \cup UNION {{body.companyResults[k].averageSentiment,
                   body.companyResults[k].averageRating,
                   body.companyResults[k].platforms.capterra.avgSentiment,
                   body.companyResults[k].platforms.capterra.avgRating} :
                     k \in DOMAIN body.companyResults}

\* C16: whenever a run collects no reviews (empty company list, every
\* company skipped, every company yielding nothing, no catalog) the
\* summary's averageSentiment is 0 and no average of the summary divides by
\* zero; summarize_sentiment and calculate_overall_sentiment give 0 for an
\* empty list as well.
C16_EmptyRunAveragesZero ==
    /\ (app \in {"live", "demo"} /\ pc = "done" /\ response.kind = "returned") =>
         /\ all_reviews = <<>> =>
              /\ response.body.averageSentiment = Ratio(0, 1)
              /\ response.body.totalReviews = 0
         /\ \A a \in AveragesOf(response.body) : a.den # 0
    /\ summarize_sentiment("Sage", <<>>).avg_sentiment_score = 0
    /\ calculate_overall_sentiment(<<>>).score = Ratio(0, 1)

\* C16 witness: of two requested companies one was skipped and the page of
\* the other failed to load; no review was collected and the summary was
\* returned
C16_Witness ==
    /\ app = "live" /\ pc = "done" /\ response.kind = "returned"
    /\ response.body.success /\ Len(trace) = 2 /\ all_reviews = <<>>
    /\ \E k \in DOMAIN trace : trace[k].visit = "skipped"
    /\ \E k \in DOMAIN trace : trace[k].visit = "goto_fails"
    /\ response.body.averageSentiment = Ratio(0, 1)

\* the products of the aggregated list that satisfy a bound
Above(t) == {k \in DOMAIN product_sentiments : product_sentiments[k] > t}
Below(t) == {k \in DOMAIN product_sentiments : product_sentiments[k] < t}

\* C20: calculate_overall_sentiment labels the mean m of the product
\* sentiments positive iff m > 0.1, negative iff m < -0.1 and neutral
\* otherwise; it counts a product as positive above 0.1, negative below -0.1
\* and neutral in between, the two thresholds included, so each product is
\* in exactly one class and the three counts add up to totalProducts.
C20_OverallLabelAndCounts ==
    overall.computed =>
      LET n == Len(product_sentiments)
          total == Sum(product_sentiments)
      IN /\ overall.totalProducts = n
         /\ overall.positiveProducts = Cardinality(Above(10))
         /\ overall.negativeProducts = Cardinality(Below(-10))
         /\ overall.neutralProducts =
              n - Cardinality(Above(10)) - Cardinality(Below(-10))
         /\ overall.positiveProducts + overall.negativeProducts
              + overall.neutralProducts = overall.totalProducts
         /\ overall.label \in {"positive", "negative", "neutral"}
         /\ n > 0 =>
              /\ overall.label = "positive" <=> total > 10 * n
              /\ overall.label = "negative" <=> total < -10 * n
         /\ n = 0 => overall.label = "neutral"

\* C20 witness: one product on the upper threshold, one just above it and
\* one just below the lower threshold were aggregated; the mean lies inside
\* the neutral band
C20_Witness ==
    /\ overall.computed
    /\ product_sentiments = <<10, 11, -11>>
    /\ overall.positiveProducts = 1 /\ overall.negativeProducts = 1
    /\ overall.neutralProducts = 1 /\ overall.label = "neutral"

\* the selectors of the title list whose node has text
Titled == {k \in DOMAIN title_selectors :
              /\ query_selector(element, title_selectors[k]).kind = "node"
              /\ TextOf(query_selector(element, title_selectors[k])) # ""}

\* C17: when the name, rating or title probe of scrape_capterra_playwright
\* finds no usable value (no selector matches, the text is empty, the rating
\* text holds no number) the field has its default ("Anonymous", 0.0, "")
\* and the record is produced whenever the content passes the gate, with
\* the probed fields; a malformed field never drops the record.
C17_MalformedFieldTakesDefault ==
    extracted # <<>> =>
      LET got == extracted[1] IN
      /\ Matching(element, name_selectors, TextOf) = {}
           => got.reviewer_name = "Anonymous"
      /\ Matching(element, rating_selectors, NumberOf) = {} => got.rating = 0
      /\ Titled = {} => got.title = ""
      /\ Len(got.reviews) = (IF Len(got.content) > 10 THEN 1 ELSE 0)
      /\ got.reviews # <<>> =>
           /\ got.reviews[1].reviewer_name = got.reviewer_name
           /\ got.reviews[1].rating = got.rating
           /\ got.reviews[1].title = got.title
           /\ got.reviews[1].content = got.content

\* C17 witness: the only rating node reads "Rated highly" and no name or
\* title selector matches; the record is produced with the three defaults
C17_Witness ==
    /\ extracted # <<>>
    /\ query_selector(element, rating_selectors[1]) = Node("Rated highly", None)
    /\ Matching(element, rating_selectors, NumberOf) = {}
    /\ Len(extracted[1].reviews) = 1
    /\ extracted[1].reviews[1].rating = 0
    /\ extracted[1].reviews[1].reviewer_name = "Anonymous"
    /\ extracted[1].reviews[1].title = ""

\* the element with every raising selector answering with no node
Scrub(el) == [sel \in DOMAIN el |-> IF el[sel] = Throws THEN NoNode ELSE el[sel]]

\* C18: an exception raised while querying or reading a selector of a
\* field probe is swallowed and the probe goes on with the next selector:
\* every field, and the record, are what they would be had the raising
\* selectors matched nothing, and the element after it is still extracted.
C18_SelectorFailureSwallowed ==
    extracted # <<>> =>
      LET got == extracted[1]
          calm == Scrub(element)
      IN /\ got.reviewer_name = probe_name(calm, 1)
         /\ got.rating = probe_rating(calm, 1)
         /\ got.content = probe_content(calm, 1, "")
         /\ got.title = probe_title(calm, 1)
         /\ got.reviews = extract_review(calm, "Sage", SageUrl)
         /\ Matching(element, name_selectors, TextOf) # {}
              => got.reviewer_name # "Anonymous"
         /\ extract_all(<<element, CardPlain>>, "Sage", SageUrl)
              = got.reviews \o extract_review(CardPlain, "Sage", SageUrl)

\* C18 witness: the first name selector raises and the second one supplies
\* the name of the record
C18_Witness ==
    /\ extracted # <<>>
    /\ query_selector(element, name_selectors[1]) = Throws
    /\ query_selector(element, name_selectors[2]) = Node(NameTexts[2], None)
    /\ Len(extracted[1].reviews) = 1
    /\ extracted[1].reviews[1].reviewer_name = "Marc K."

\* C19: for every compound score s in [-1, 1] analyze_sentiment returns
\* the label positive iff s >= 0.05, negative iff s <= -0.05 and neutral
\* otherwise, with confidence |s|; the sentiment_label and
\* sentiment_confidence of every row store_reviews_in_supabase writes are
\* the same functions of the row's sentiment_score.
C19_LabelAndConfidenceFollowScore ==
    /\ LET s == raw_scores[1]
           a == sentiment_of(s)
       IN /\ a.sentiment_score = s
          /\ a.sentiment_label = "positive" <=> s >= 5
          /\ a.sentiment_label = "negative" <=> s <= -5
          /\ a.sentiment_label = "neutral" <=> (s > -5 /\ s < 5)
          /\ a.sentiment_confidence = (IF s < 0 THEN -s ELSE s)
          /\ scored => /\ reviews[1].sentiment_score = s
                       /\ reviews[1].sentiment_label = a.sentiment_label
    /\ \A b \in DOMAIN inserts : \A k \in DOMAIN inserts[b] :
         LET row == inserts[b][k]
             s == row.sentiment_score
         IN /\ row.sentiment_label = "positive" <=> s >= 5
            /\ row.sentiment_label = "negative" <=> s <= -5
            /\ row.sentiment_label = "neutral" <=> (s > -5 /\ s < 5)
            /\ row.sentiment_confidence = (IF s < 0 THEN -s ELSE s)
            /\ scored => s = raw_scores[1]

\* C19 witness: a review whose text scores exactly -0.05 was analyzed and
\* stored: the row is negative with confidence 0.05
C19_Witness ==
    /\ scored /\ raw_scores = <<-5>> /\ table # <<>>
    /\ reviews[1].sentiment_label = "negative"
    /\ table[1].sentiment_score = -5
    /\ table[1].sentiment_label = "negative"
    /\ table[1].sentiment_confidence = 5

\* the elements of the first review selector of the running scraper that
\* matched at least one element of the page of the call
FoundElements ==
    IF call.variant = "capterra" THEN find_review_elements(call.page, 1)
    ELSE IF call.status = 200 THEN direct_review_blocks(call.page, 1) ELSE <<>>

\* C21: for every page and every max_reviews a scrape call returns at most
\* max_reviews records and invokes the per-element extraction at most
\* max_reviews times, on the elements of the first matching review
\* selector, taken in document order.
C21_ExtractionCapped ==
    (call.variant \in {"capterra", "g2_direct"} /\ call.done) =>
      /\ Len(call.reviews) <= call.max_reviews
      /\ Len(call.probed) <= call.max_reviews
      /\ Len(call.probed) <= Len(FoundElements)
      /\ \A k \in DOMAIN call.probed : call.probed[k] = k

\* whether the flag a debug file answers to is enabled in the
\* configuration
FlagOf(f, config) ==
    IF SubSeq(f, Len(f) - 3, Len(f)) = ".png" THEN config.save_screenshots
    ELSE config.save_html

\* C22: every navigator variant writes a debug screenshot or HTML dump only
\* when the corresponding debug flag is enabled; under the default
\* configuration (save_screenshots = false, save_html = false) a scrape
\* writes no debug file.
C22_DebugCaptureGated ==
    (call.variant \in {"capterra", "g2", "glassdoor"} /\ call.done) =>
      LET config == IF call.variant = "capterra" THEN imported ELSE call.central
      IN /\ \A f \in call.wrote : FlagOf(f, config)
         /\ (~ config.save_screenshots /\ ~ config.save_html) => call.wrote = {}

C30_CaptureFollowsCurrentConfig ==
    (call.done /\ call.variant = "capterra"
       /\ call.visit \in {"no_elements", "reviews"}) =>
      /\ Screenshot("capterra", "Unknown_Co") \in call.wrote
           <=> call.central.save_screenshots
      /\ HtmlDump("capterra", "Unknown_Co") \in call.wrote
           <=> call.central.save_html

\* C23: when the Playwright scrape of a company fails (browser launch,
\* navigation or page error) scrape_capterra_reviews_async falls back to
\* _fallback_scraping for the same company and URL and returns its result.
C23_FallbackOnPlaywrightFailure ==
    (call.variant = "integrated" /\ call.done /\ call.import_ok
       /\ VisitKind(call.visit) \in {"launch_fails", "goto_fails"}) =>
      /\ call.fallback
      /\ call.reviews = fallback_scraping(call.company, call.url,
                                          call.max_reviews, call.fetched)

\* a run of live_scraping that returned a successful summary
Summarized(a) ==
    /\ app = a /\ pc = "done" /\ response.kind = "returned"
    /\ response.body.success

\* C24: in every successful live_scraping summary the platformBreakdown
\* counts add up to totalReviews: each collected review is counted under
\* exactly one platform key.
C24_BreakdownSumsToTotal ==
    Summarized("live") =>
      response.body.platformBreakdown.capterra = response.body.totalReviews

\* C26: in every live_scraping summary storedCount is the number of rows
\* the run inserted into the database; it is 0 whenever storedInSupabase is
\* false.
C26_StoredCountIsRowsInserted ==
    (Summarized("live") \/ Summarized("demo")) =>
      /\ response.body.storedCount = Len(table)
      /\ ~ response.body.storedInSupabase => response.body.storedCount = 0

\* C27: in every successful summary of both orchestrators, also for a
\* request naming a company more than once, the totalReviews of the
\* companyResults add up to the run's totalReviews, each CompanyResult
\* counting the reviews of its own loop iteration only.
C27_CompanyTotalsSumToRunTotal ==
    (Summarized("live") \/ Summarized("demo")) =>
      LET results == response.body.companyResults IN
      /\ Sum([k \in DOMAIN results |-> results[k].totalReviews])
           = response.body.totalReviews
      /\ Len(results) = Len(Counted)
      /\ \A k \in DOMAIN results :
           results[k].totalReviews = Counted[k].collected

\* the scrape of connection c waits for a solution, and the client has sent
\* the solution with the matching captcha_id on that connection
SolutionSent(c) ==
    /\ sockets[c].at = "waiting" /\ captcha_state.waiting
    /\ \E k \in DOMAIN sockets[c].inbox :
         /\ sockets[c].inbox[k].type = "captcha_solution"
         /\ sockets[c].inbox[k].captcha_id = captcha_state.current_captcha

\* C25: after a CAPTCHA was detected and the captcha_request sent, a
\* captcha_solution with the matching captcha_id sent by the client on the
\* websocket connection that started the scrape is eventually received and
\* handled, the waiting loop is left and the scrape continues: the session
\* never waits forever for a solution the client has already sent.
C25_SentSolutionEventuallyHandled ==
    \A c \in Conns : SolutionSent(c) ~> (sockets[c].at # "waiting")

\* the products of the analysed company whose scrape gave reviews
WithReviews ==
    {k \in DOMAIN ProductsOf(analysis.company_name) :
        product_reviews(ProductsOf(analysis.company_name)[k][1],
                        analysis.scrapes[k]) # <<>>}

RecordedReviews ==
    SetSum(DOMAIN company_data.products,
           [p \in DOMAIN company_data.products |-> company_data.products[p].reviews])

\* C29: in every result of analyze_company_sentiment with success = true,
\* totalReviews = platforms.capterra = the sum of products[p].reviews over
\* the recorded products and overallSentiment.totalProducts is the number of
\* recorded products; a product whose scrape raises or yields no reviews
\* adds nothing, and the other products are still processed: the recorded
\* products are exactly those whose scrape gave reviews.
C29_TotalsMatchRecordedProducts ==
    (company_data # NoCompanyData /\ company_data.success) =>
        /\ company_data.totalReviews = company_data.platforms.capterra
        /\ company_data.totalReviews = RecordedReviews
        /\ company_data.overallSentiment.totalProducts
             = Cardinality(DOMAIN company_data.products)
        /\ DOMAIN company_data.products
             = {ProductsOf(analysis.company_name)[k][1] : k \in WithReviews}

\* a result in which one product raised, one gave no reviews and a later
\* one was recorded
C29_Witness ==
    /\ company_data # NoCompanyData /\ company_data.success
    /\ \E a, b, c \in DOMAIN analysis.scrapes :
         /\ a < c /\ b < c
         /\ analysis.scrapes[a].visit = "raises"
         /\ analysis.scrapes[b].visit = "loaded" /\ b \notin WithReviews
         /\ c \in WithReviews
    /\ company_data.totalReviews = 2

====
